---- MODULE Spec2Model ----
(***************************************************************************)
(* Workload scheduler of shipyard: borrow descriptors, workload builders,  *)
(* flattening of work units, the batch planner of create_workload, the     *)
(* scheduler registry and the execution of a planned workload.             *)
(*                                                                         *)
(* Pool indices, batch indices and `valid` are 0-based as in the source;   *)
(* TLA+ sequences are 1-based, so pool index k is systems[k + 1] and batch *)
(* k is parallel[k + 1].                                                   *)
(***************************************************************************)
EXTENDS Integers, Sequences, FiniteSets, TLC

VARIABLES
    systems,            \* Scheduler.systems: the pool, one runner per entry
    system_names,       \* Scheduler.system_names
    system_generators,  \* Scheduler.system_generators
    lookup_table,       \* Scheduler.lookup_table: type_id -> pool index
    workloads,          \* Scheduler.workloads: label -> Batches
    default,            \* Scheduler.default
    builders,           \* the WorkloadBuilder values the caller holds
    scheduled,          \* the ScheduledWorkload of the last build()
    consumed,           \* the builder the last add_to_world / build took
    result,             \* what the last add_to_world / build returned
    plans,              \* per registered label: collected_systems and the `valid` of every placement
    units_added,        \* number of work units and predicates handed to builders so far
    panicked,           \* some registration unwound with a panic
    run,                \* the run of a workload in progress
    storages,           \* the value held by every storage of the world
    writers             \* the builders whose add_to_world holds the Scheduler exclusively

vars == <<systems, system_names, system_generators, lookup_table, workloads,
          default, builders, scheduled, consumed, result, plans, units_added,
          panicked, run, storages, writers>>

(***************************************************************************)
(* Bounds.                                                                 *)
(***************************************************************************)
MaxSystems == 3
MaxUnits == 3
MaxRunSystems == 3
MaxRuns == 1
MaxSkip == 1

\* Option<T>: None is the empty sequence, Some(x) the one-element sequence
None == <<>>
Some(x) == <<x>>

(***************************************************************************)
(* Option<T> helpers and sequence helpers.                                 *)
(***************************************************************************)
Range(s) == {s[i] : i \in 1..Len(s)}

SeqsUpTo(S, n) == UNION {[1..k -> S] : k \in 0..n}

RECURSIVE Concat(_)
Concat(ss) == IF ss = <<>> THEN <<>> ELSE Head(ss) \o Concat(Tail(ss))

(***************************************************************************)
(* Borrow descriptors (TypeInfo) as the BorrowInfo implementations emit    *)
(* them.                                                                   *)
(***************************************************************************)
Shared == "Shared"
Exclusive == "Exclusive"

\* StorageId::of::<T>()
StorageId_of(ty) == [kind |-> "TypeId", ty |-> ty]

\* StorageId::local_of leaving the owning system out of the id
StorageId_local_of_type_only(ty, system_id) == [kind |-> "Local", ty |-> ty, system |-> ""]

\* StorageId::local_of::<T>(system_id)
StorageId_local_of(ty, system_id) == [kind |-> "Local", ty |-> ty, system |-> system_id]

AllStoragesId == StorageId_of("AllStorages")

TypeInfo(name, mutability, storage_id, thread_safe) ==
    [name |-> name, mutability |-> mutability, storage_id |-> storage_id,
     thread_safe |-> thread_safe]

\* View<T>, NonSend<View<T>>
View(t) == TypeInfo("SparseSet<" \o t \o ">", Shared, StorageId_of("SparseSet<" \o t \o ">"), TRUE)

\* NonSync<View<T>>, NonSendSync<View<T>>
NonSyncView(t) == TypeInfo("SparseSet<" \o t \o ">", Shared, StorageId_of("SparseSet<" \o t \o ">"), FALSE)

\* ViewMut<T>, NonSync<ViewMut<T>>
ViewMut(t) == TypeInfo("SparseSet<" \o t \o ">", Exclusive, StorageId_of("SparseSet<" \o t \o ">"), TRUE)

\* NonSend<ViewMut<T>>, NonSendSync<ViewMut<T>>
NonSendViewMut(t) == TypeInfo("SparseSet<" \o t \o ">", Exclusive, StorageId_of("SparseSet<" \o t \o ">"), FALSE)

\* UniqueViewMut<T>
UniqueViewMut(t) == TypeInfo("UniqueStorage<" \o t \o ">", Exclusive, StorageId_of("UniqueStorage<" \o t \o ">"), TRUE)

\* AllStoragesView; thread_safe is false when the thread_local feature is on
AllStoragesView(thread_local) == TypeInfo("AllStorages", Shared, AllStoragesId, ~thread_local)

\* AllStoragesViewMut
AllStoragesViewMut(thread_local) == TypeInfo("AllStorages", Exclusive, AllStoragesId, ~thread_local)

\* LocalViewMut declaring a thread-safe borrow
LocalViewMut_thread_safe(t, system_id) ==
    TypeInfo("LocalStorage<" \o t \o ">", Exclusive,
             StorageId_local_of("LocalStorage<" \o t \o ">", system_id), TRUE)

\* LocalViewMut<T> of the system system_id
LocalViewMut(t, system_id) ==
    TypeInfo("LocalStorage<" \o t \o ">", Exclusive,
             StorageId_local_of("LocalStorage<" \o t \o ">", system_id), FALSE)

(***************************************************************************)
(* The systems of the model: a type_id and the borrow list its generator   *)
(* produces (BorrowInfo of the tuple of its views, in parameter order).    *)
(***************************************************************************)
generator(type_id) ==
    CASE type_id = "sys_r"      -> <<View("Usize")>>
      [] type_id = "sys_w"      -> <<ViewMut("Usize")>>
      [] type_id = "sys_rw"     -> <<View("Usize"), ViewMut("U32")>>
      [] type_id = "sys_uw"     -> <<UniqueViewMut("Usize")>>
      [] type_id = "sys_uw2"    -> <<UniqueViewMut("U32")>>
      [] type_id = "sys_all"    -> <<AllStoragesViewMut(FALSE)>>
      [] type_id = "sys_all_r"  -> <<AllStoragesView(TRUE)>>
      [] type_id = "sys_ns_w"   -> <<NonSendViewMut("NotSend")>>
      [] type_id = "sys_ns_r"   -> <<NonSyncView("Usize")>>
      [] type_id = "sys_ns_all" -> <<NonSendViewMut("NotSend"), AllStoragesViewMut(FALSE)>>
      [] type_id = "sys_ns_rw"  -> <<NonSendViewMut("NotSend"), View("U32")>>
      [] type_id = "sys_local"  -> <<LocalViewMut("USIZE", "sys_local")>>
      [] type_id = "sys_local2" -> <<LocalViewMut("USIZE", "sys_local2")>>
      [] type_id = "sys_unit"   -> <<>>
      [] type_id = "sys_try_w"  -> <<ViewMut("U32")>>
      [] type_id = "sys_try_r"  -> <<View("Usize")>>
      [] type_id = "sys_ww"     -> <<ViewMut("Usize"), ViewMut("U32")>>
      [] type_id = "sys_rw2"    -> <<View("Usize"), ViewMut("U32")>>

Systems == {"sys_r", "sys_w", "sys_rw", "sys_uw", "sys_all", "sys_all_r",
            "sys_ns_w", "sys_ns_r", "sys_ns_all", "sys_ns_rw", "sys_local", "sys_local2", "sys_unit",
            "sys_try_w"}

\* the systems used where several workloads are registered
RegSystems == {"sys_r", "sys_w", "sys_all"}

\* the systems used where workloads are run
RunSystems == {"sys_r", "sys_w", "sys_rw", "sys_all", "sys_ns_w", "sys_unit", "sys_try_w",
               "sys_try_r"}

\* the systems of the builders that are appended to each other
AppendSystems == {"sys_ww", "sys_rw", "sys_rw2", "sys_r"}

\* the systems added by with_try_system: they may return an error
Fallible == {"sys_try_w", "sys_try_r"}

Labels == {"A", "B"}

\* skip predicates, named by what they return
Predicates == {"skip", "keep"}

(***************************************************************************)
(* The batch planner: the loop body of create_workload.                    *)
(***************************************************************************)
SystemId(system_info) == [name |-> system_info.name, type_id |-> system_info.type_id]

SystemInfo(system, conflict) ==
    [name |-> system.name, type_id |-> system.type_id, borrow |-> system.borrow,
     conflict |-> conflict]

\* first_special with the test of thread_safe left out
first_special_all_storages_only(borrow_constraints) ==
    LET hits == {k \in 1..Len(borrow_constraints) :
                    borrow_constraints[k].storage_id = AllStoragesId}
    IN IF hits = {} THEN 0 ELSE CHOOSE k \in hits : \A j \in hits : k <= j

\* the index of the borrow at which the classification loop breaks, 0 if it runs to the end
first_special(borrow_constraints) ==
    LET hits == {k \in 1..Len(borrow_constraints) :
                    \/ borrow_constraints[k].storage_id = AllStoragesId
                    \/ ~borrow_constraints[k].thread_safe}
    IN IF hits = {} THEN 0 ELSE CHOOSE k \in hits : \A j \in hits : k <= j

\* `all_storages` after the classification loop
all_storages_of(borrow_constraints) ==
    LET k == first_special(borrow_constraints)
    IN IF k # 0 /\ borrow_constraints[k].storage_id = AllStoragesId
       THEN Some(borrow_constraints[k]) ELSE None

\* `non_send_sync` after the classification loop
non_send_sync_of(borrow_constraints) ==
    LET k == first_special(borrow_constraints)
    IN IF k # 0 /\ borrow_constraints[k].storage_id # AllStoragesId
       THEN Some(borrow_constraints[k]) ELSE None

\* pair_conflict with the Shared arm never comparing storage ids
pair_conflict_shared_unchecked(type_info, other_type_info) ==
    IF ~type_info.thread_safe /\ ~other_type_info.thread_safe
    THEN "OtherNotSendSync"
    ELSE IF type_info.mutability = Exclusive
         THEN IF \/ type_info.storage_id = other_type_info.storage_id
                 \/ type_info.storage_id = AllStoragesId
                 \/ other_type_info.storage_id = AllStoragesId
              THEN "Borrow" ELSE "Compatible"
         ELSE IF \/ type_info.storage_id = AllStoragesId
                 \/ other_type_info.storage_id = AllStoragesId
              THEN "Borrow" ELSE "Compatible"

\* pair_conflict taking any two borrows of one storage for a conflict
pair_conflict_same_storage_any(type_info, other_type_info) ==
    IF ~type_info.thread_safe /\ ~other_type_info.thread_safe
    THEN "OtherNotSendSync"
    ELSE IF \/ type_info.storage_id = other_type_info.storage_id
            \/ type_info.storage_id = AllStoragesId
            \/ other_type_info.storage_id = AllStoragesId
         THEN "Borrow" ELSE "Compatible"

\* the test made on one pair of descriptors in the innermost loop: the kind
\* of Conflict it records, "Compatible" when it records none
pair_conflict(type_info, other_type_info) ==
    IF ~type_info.thread_safe /\ ~other_type_info.thread_safe
    THEN "OtherNotSendSync"
    ELSE IF type_info.mutability = Exclusive
         THEN IF \/ type_info.storage_id = other_type_info.storage_id
                 \/ type_info.storage_id = AllStoragesId
                 \/ other_type_info.storage_id = AllStoragesId
              THEN "Borrow" ELSE "Compatible"
         ELSE IF \/ /\ type_info.storage_id = other_type_info.storage_id
                    /\ other_type_info.mutability = Exclusive
                 \/ type_info.storage_id = AllStoragesId
                 \/ other_type_info.storage_id = AllStoragesId
              THEN "Borrow" ELSE "Compatible"

\* system_conflict finding no conflict against a system of the same borrow list
system_conflict_skip_same_borrow(borrow_constraints, other_system) ==
    LET hits == {h \in (1..Len(other_system.borrow)) \X (1..Len(borrow_constraints)) :
                    pair_conflict(borrow_constraints[h[2]], other_system.borrow[h[1]]) # "Compatible"}
        first == CHOOSE h \in hits : \A g \in hits :
                    h[1] < g[1] \/ (h[1] = g[1] /\ h[2] <= g[2])
        kind == pair_conflict(borrow_constraints[first[2]], other_system.borrow[first[1]])
    IN IF hits = {} \/ other_system.borrow = borrow_constraints THEN None
       ELSE IF kind = "OtherNotSendSync"
            THEN Some([kind |-> "OtherNotSendSync", system |-> SystemId(other_system),
                       type_info |-> other_system.borrow[first[1]]])
            ELSE Some([kind |-> "Borrow", type_info |-> Some(borrow_constraints[first[2]]),
                       other_system |-> SystemId(other_system),
                       other_type_info |-> other_system.borrow[first[1]]])

\* the first conflict the two inner loops find against one other system
system_conflict(borrow_constraints, other_system) ==
    LET hits == {h \in (1..Len(other_system.borrow)) \X (1..Len(borrow_constraints)) :
                    pair_conflict(borrow_constraints[h[2]], other_system.borrow[h[1]]) # "Compatible"}
        first == CHOOSE h \in hits : \A g \in hits :
                    h[1] < g[1] \/ (h[1] = g[1] /\ h[2] <= g[2])
        kind == pair_conflict(borrow_constraints[first[2]], other_system.borrow[first[1]])
    IN IF hits = {} THEN None
       ELSE IF kind = "OtherNotSendSync"
            THEN Some([kind |-> "OtherNotSendSync", system |-> SystemId(other_system),
                       type_info |-> other_system.borrow[first[1]]])
            ELSE Some([kind |-> "Borrow", type_info |-> Some(borrow_constraints[first[2]]),
                       other_system |-> SystemId(other_system),
                       other_type_info |-> other_system.borrow[first[1]]])

\* batch_info.systems.0.iter().chain(batch_info.systems.1.iter())
chain(batch) == batch[1] \o batch[2]

\* batch_conflict looking at the parallel list only
batch_conflict_parallel_only(borrow_constraints, batch) ==
    LET others == batch[2]
        hits == {k \in 1..Len(others) : system_conflict(borrow_constraints, others[k]) # None}
    IN IF hits = {} THEN None
       ELSE system_conflict(borrow_constraints, others[CHOOSE k \in hits : \A j \in hits : k <= j])

\* the first conflict found against the systems of one batch
batch_conflict(borrow_constraints, batch) ==
    LET others == chain(batch)
        hits == {k \in 1..Len(others) : system_conflict(borrow_constraints, others[k]) # None}
    IN IF hits = {} THEN None
       ELSE system_conflict(borrow_constraints, others[CHOOSE k \in hits : \A j \in hits : k <= j])

\* .iter().rev().find(|other_system_info| !other_system_info.borrow.is_empty())
rev_find_borrowing(list) ==
    LET hits == {k \in 1..Len(list) : list[k].borrow # <<>>}
    IN IF hits = {} THEN None ELSE Some(list[CHOOSE k \in hits : \A j \in hits : k >= j])

\* scan_all_storages moving over every batch whose parallel list has no
\* borrowing system, whatever its main slot holds
RECURSIVE scan_all_storages_over_main(_, _, _, _)
scan_all_storages_over_main(batch_info, i, valid, all_storages_type_info) ==
    IF i = 0 THEN [valid |-> valid, conflict |-> None]
    ELSE IF rev_find_borrowing(batch_info[i][2]) = None
         THEN scan_all_storages_over_main(batch_info, i - 1, i - 1, all_storages_type_info)
         ELSE [valid |-> valid, conflict |-> None]

\* scan_all_storages moving over every batch whose main slot is empty,
\* whatever its parallel list holds
RECURSIVE scan_all_storages_over_parallel(_, _, _, _)
scan_all_storages_over_parallel(batch_info, i, valid, all_storages_type_info) ==
    IF i = 0 THEN [valid |-> valid, conflict |-> None]
    ELSE IF batch_info[i][1] = None
         THEN scan_all_storages_over_parallel(batch_info, i - 1, i - 1, all_storages_type_info)
         ELSE [valid |-> valid, conflict |-> None]

\* the backward scan of the AllStorages branch from batch i (1-based) down:
\* the final `valid` and the conflict to record
RECURSIVE scan_all_storages(_, _, _, _)
scan_all_storages(batch_info, i, valid, all_storages_type_info) ==
    IF i = 0 THEN [valid |-> valid, conflict |-> None]
    ELSE LET main == batch_info[i][1]
             other == rev_find_borrowing(batch_info[i][2])
         IN IF main = None /\ other = None
            THEN scan_all_storages(batch_info, i - 1, i - 1, all_storages_type_info)
            ELSE LET other_system_info == IF main # None THEN main[1] ELSE other[1]
                 IN [valid |-> valid,
                     conflict |-> Some([kind |-> "Borrow",
                                        type_info |-> Some(all_storages_type_info),
                                        other_system |-> SystemId(other_system_info),
                                        other_type_info |->
                                            other_system_info.borrow[Len(other_system_info.borrow)]])]

\* scan_batches stopping behind every batch whose main slot is occupied,
\* whether or not the system is non-thread-safe
RECURSIVE scan_batches_stop_at_main(_, _, _, _, _)
scan_batches_stop_at_main(batch_info, i, valid, borrow_constraints, non_send_sync) ==
    IF i = 0 THEN [valid |-> valid, conflict |-> None, main |-> FALSE]
    ELSE IF batch_info[i][1] # None
         THEN [valid |-> valid, main |-> TRUE, conflict |-> None]
         ELSE IF batch_conflict(borrow_constraints, batch_info[i]) # None
              THEN [valid |-> valid, main |-> FALSE,
                    conflict |-> batch_conflict(borrow_constraints, batch_info[i])]
              ELSE scan_batches_stop_at_main(batch_info, i - 1, i - 1, borrow_constraints,
                                             non_send_sync)

\* scan_batches looking at the last batch only: the system moves up by one
\* batch at most
scan_batches_last_batch_only(batch_info, i, valid, borrow_constraints, non_send_sync) ==
    IF i = 0 THEN [valid |-> valid, conflict |-> None, main |-> FALSE]
    ELSE IF non_send_sync # None /\ batch_info[i][1] # None
         THEN [valid |-> valid, main |-> TRUE, conflict |-> None]
         ELSE IF batch_conflict(borrow_constraints, batch_info[i]) # None
              THEN [valid |-> valid, main |-> FALSE,
                    conflict |-> batch_conflict(borrow_constraints, batch_info[i])]
              ELSE [valid |-> i - 1, conflict |-> None, main |-> FALSE]

\* scan_batches running `valid = i` before the conflict test: the system is
\* placed in the batch it conflicts with
RECURSIVE scan_batches_valid_first(_, _, _, _, _)
scan_batches_valid_first(batch_info, i, valid, borrow_constraints, non_send_sync) ==
    IF i = 0 THEN [valid |-> valid, conflict |-> None, main |-> FALSE]
    ELSE IF non_send_sync # None /\ batch_info[i][1] # None
         THEN LET other_system_info == batch_info[i][1][1]
              IN [valid |-> valid, main |-> TRUE,
                  conflict |-> Some([kind |-> "Borrow",
                                     type_info |-> non_send_sync,
                                     other_system |-> SystemId(other_system_info),
                                     other_type_info |->
                                         other_system_info.borrow[Len(other_system_info.borrow)]])]
         ELSE LET conflict == batch_conflict(borrow_constraints, batch_info[i])
              IN IF conflict # None
                 THEN [valid |-> i - 1, conflict |-> conflict, main |-> FALSE]
                 ELSE scan_batches_valid_first(batch_info, i - 1, i - 1, borrow_constraints,
                                               non_send_sync)

\* scan_batches leaving only the inner loops on a conflict: `valid = i` runs
\* and the scan goes on to the batch before
RECURSIVE scan_batches_inner_break(_, _, _, _, _)
scan_batches_inner_break(batch_info, i, valid, borrow_constraints, non_send_sync) ==
    IF i = 0 THEN [valid |-> valid, conflict |-> None, main |-> FALSE]
    ELSE IF non_send_sync # None /\ batch_info[i][1] # None
         THEN [valid |-> valid, main |-> TRUE, conflict |-> None]
         ELSE scan_batches_inner_break(batch_info, i - 1, i - 1, borrow_constraints,
                                       non_send_sync)

\* the backward scan 'batch of the other branch: the final `valid`, the
\* conflict, and whether the scan stopped on an occupied main slot
RECURSIVE scan_batches(_, _, _, _, _)
scan_batches(batch_info, i, valid, borrow_constraints, non_send_sync) ==
    IF i = 0 THEN [valid |-> valid, conflict |-> None, main |-> FALSE]
    ELSE IF non_send_sync # None /\ batch_info[i][1] # None
         THEN LET other_system_info == batch_info[i][1][1]
              IN [valid |-> valid, main |-> TRUE,
                  conflict |-> Some([kind |-> "Borrow",
                                     type_info |-> non_send_sync,
                                     other_system |-> SystemId(other_system_info),
                                     other_type_info |->
                                         other_system_info.borrow[Len(other_system_info.borrow)]])]
         ELSE LET conflict == batch_conflict(borrow_constraints, batch_info[i])
              IN IF conflict # None
                 THEN [valid |-> valid, conflict |-> conflict, main |-> FALSE]
                 ELSE scan_batches(batch_info, i - 1, i - 1, borrow_constraints, non_send_sync)

\* batches.parallel[valid].0 = Some(..) / push((Some(..), Vec::new())), on
\* batches.parallel (with the pool index) or batch_info (with the SystemInfo)
set_main(batches, valid, entry) ==
    IF valid < Len(batches)
    THEN [batches EXCEPT ![valid + 1] = <<Some(entry), @[2]>>]
    ELSE Append(batches, <<Some(entry), <<>>>>)

\* batches.parallel[valid].1.push(..) / push((None, vec![..]))
push_parallel(batches, valid, entry) ==
    IF valid < Len(batches)
    THEN [batches EXCEPT ![valid + 1] = <<@[1], Append(@[2], entry)>>]
    ELSE Append(batches, <<None, <<entry>>>>)

\* the backward scan over the batches for one system
scan(batch_info, len, borrow_constraints, all_storages, non_send_sync) ==
    IF all_storages # None
    THEN scan_all_storages(batch_info, len, len, all_storages[1])
    ELSE scan_batches(batch_info, len, len, borrow_constraints, non_send_sync)

\* the placement of a system at `valid`, in the main slot or in the parallel list
place_at(plan, system, in_main, valid, conflict) ==
    [parallel |-> IF in_main THEN set_main(plan.parallel, valid, system.index)
                  ELSE push_parallel(plan.parallel, valid, system.index),
     batch_info |-> IF in_main
                    THEN set_main(plan.batch_info, valid, SystemInfo(system, conflict))
                    ELSE push_parallel(plan.batch_info, valid, SystemInfo(system, conflict)),
     sequential |-> Append(plan.sequential, system.index),
     placed |-> Append(plan.placed, valid)]

\* the system placed where its scan ended
place_scanned(plan, system, in_main, scanned) ==
    place_at(plan, system, in_main, scanned.valid, scanned.conflict)

\* one iteration of the loop 'systems: the plan after the system is placed
place_system(plan, system) ==
    place_scanned(plan, system,
                  all_storages_of(system.borrow) # None \/ non_send_sync_of(system.borrow) # None,
                  scan(plan.batch_info, Len(plan.parallel), system.borrow,
                       all_storages_of(system.borrow), non_send_sync_of(system.borrow)))

EmptyPlan == [parallel |-> <<>>, batch_info |-> <<>>, sequential |-> <<>>, placed |-> <<>>]

\* the loop 'systems over collected_systems
RECURSIVE place_all(_, _)
place_all(plan, collected_systems) ==
    IF collected_systems = <<>> THEN plan
    ELSE place_all(place_system(plan, Head(collected_systems)), Tail(collected_systems))

\* place_single putting every system in the parallel list
place_single_parallel_only(system) ==
    [parallel |-> <<<<None, <<system.index>>>>>>,
     batch_info |-> <<<<Some(SystemInfo(system, None)), <<>>>>>>,
     sequential |-> <<system.index>>,
     placed |-> <<0>>]

\* the branch taken when collected_systems.len() == 1
place_single(system) ==
    LET in_main == all_storages_of(system.borrow) # None \/ non_send_sync_of(system.borrow) # None
    IN [parallel |-> IF in_main THEN <<<<Some(system.index), <<>>>>>>
                     ELSE <<<<None, <<system.index>>>>>>,
        batch_info |-> <<<<Some(SystemInfo(system, None)), <<>>>>>>,
        sequential |-> <<system.index>>,
        placed |-> <<0>>]

\* the batches and the WorkloadInfo create_workload computes from collected_systems
plan_batches(collected_systems) ==
    IF Len(collected_systems) = 1 THEN place_single(collected_systems[1])
    ELSE place_all(EmptyPlan, collected_systems)

(***************************************************************************)
(* Work units and builders.                                                *)
(***************************************************************************)
\* WorkUnit::System(WorkloadSystem::System { .. }) made from the system type_id
SystemUnit(type_id) ==
    [kind |-> "System", system_type_id |-> type_id, system_type_name |-> type_id,
     borrow_constraints |-> generator(type_id), generator |-> type_id]

\* WorkUnit::WorkloadName(label)
WorkloadNameUnit(label) == [kind |-> "WorkloadName", label |-> label]

\* WorkUnit::System(WorkloadSystem::Workload(workload))
WorkloadUnit(work_units) == [kind |-> "Workload", work_units |-> work_units]

\* WorkloadBuilder::new
new_builder(label) == [work_units |-> <<>>, name |-> label, skip_if |-> <<>>]

\* the number of work units of a builder, those of inline workloads included
RECURSIVE unit_count(_)
unit_count(work_units) ==
    IF work_units = <<>> THEN 0
    ELSE (IF Head(work_units).kind = "Workload"
          THEN 1 + unit_count(Head(work_units).work_units) ELSE 1)
         + unit_count(Tail(work_units))

\* the units a builder of the registry specification is given: systems and labels
Atoms ==
    {SystemUnit(type_id) : type_id \in RegSystems}
    \cup {WorkloadNameUnit(label) : label \in Labels}

\* the lists of work units that count exactly n units
RECURSIVE UnitLists(_)
UnitLists(n) ==
    IF n = 0 THEN {<<>>}
    ELSE UNION {
            {<<u>> \o rest :
                u \in (IF k = 1 THEN Atoms ELSE {}) \cup
                        {WorkloadUnit(w) : w \in UnitLists(k - 1)},
                rest \in UnitLists(n - k)} : k \in 1..n}

\* the inline workloads (WorkloadSystem::Workload) of at most n units
InlineWorkloads(n) == UNION {UnitLists(k) : k \in 0..(n - 1)}

(***************************************************************************)
(* The registry (Scheduler) as a value, and flattening.                    *)
(***************************************************************************)
EmptyFcn == [x \in {} |-> x]

EmptyRegistry ==
    [systems |-> <<>>, system_names |-> <<>>, system_generators |-> <<>>,
     lookup_table |-> EmptyFcn, workloads |-> EmptyFcn, default |-> ""]

\* Batches::default()
DefaultBatches == [parallel |-> <<>>, sequential |-> <<>>, skip_if |-> <<>>]

\* flatten_system collecting every borrow as thread-safe
flatten_system_thread_safe(acc, unit) ==
    LET known == unit.system_type_id \in DOMAIN acc.lookup_table
        system_index == IF known THEN acc.lookup_table[unit.system_type_id]
                        ELSE Len(acc.systems)
        entry == [type_id |-> unit.system_type_id, name |-> unit.system_type_name,
                  index |-> system_index,
                  borrow |-> [k \in 1..Len(unit.borrow_constraints) |->
                                 [unit.borrow_constraints[k] EXCEPT !.thread_safe = TRUE]]]
    IN IF known
       THEN [acc EXCEPT !.collected_systems = Append(@, entry)]
       ELSE [acc EXCEPT !.systems = Append(@, unit.system_type_id),
                        !.system_names = Append(@, unit.system_type_name),
                        !.system_generators = Append(@, unit.generator),
                        !.lookup_table = @ @@ (unit.system_type_id :> system_index),
                        !.collected_systems = Append(@, entry)]

\* flatten_system pushing a pool entry for every occurrence
flatten_system_always_push(acc, unit) ==
    LET system_index == Len(acc.systems)
        entry == [type_id |-> unit.system_type_id, name |-> unit.system_type_name,
                  index |-> system_index, borrow |-> unit.borrow_constraints]
    IN [acc EXCEPT !.systems = Append(@, unit.system_type_id),
                   !.system_names = Append(@, unit.system_type_name),
                   !.system_generators = Append(@, unit.generator),
                   !.lookup_table = [t \in DOMAIN @ \cup {unit.system_type_id} |->
                                        IF t = unit.system_type_id THEN system_index ELSE @[t]],
                   !.collected_systems = Append(@, entry)]

\* flatten_system inserting a new system at the front of the pool, which
\* moves every entry of the pool to the next index
flatten_system_push_front(acc, unit) ==
    LET known == unit.system_type_id \in DOMAIN acc.lookup_table
        system_index == IF known THEN acc.lookup_table[unit.system_type_id] ELSE 0
        entry == [type_id |-> unit.system_type_id, name |-> unit.system_type_name,
                  index |-> system_index, borrow |-> unit.borrow_constraints]
    IN IF known
       THEN [acc EXCEPT !.collected_systems = Append(@, entry)]
       ELSE [acc EXCEPT !.systems = <<unit.system_type_id>> \o @,
                        !.system_names = <<unit.system_type_name>> \o @,
                        !.system_generators = <<unit.generator>> \o @,
                        !.lookup_table = [t \in DOMAIN @ |-> @[t] + 1]
                                            @@ (unit.system_type_id :> 0),
                        !.collected_systems =
                            Append([k \in 1..Len(@) |-> [@[k] EXCEPT !.index = @ + 1]], entry)]

\* lookup_table.entry(system_type_id).or_insert_with(..) and the push on collected_systems
flatten_system(acc, unit) ==
    LET known == unit.system_type_id \in DOMAIN acc.lookup_table
        system_index == IF known THEN acc.lookup_table[unit.system_type_id]
                        ELSE Len(acc.systems)
        entry == [type_id |-> unit.system_type_id, name |-> unit.system_type_name,
                  index |-> system_index, borrow |-> unit.borrow_constraints]
    IN IF known
       THEN [acc EXCEPT !.collected_systems = Append(@, entry)]
       ELSE [acc EXCEPT !.systems = Append(@, unit.system_type_id),
                        !.system_names = Append(@, unit.system_type_name),
                        !.system_generators = Append(@, unit.generator),
                        !.lookup_table = @ @@ (unit.system_type_id :> system_index),
                        !.collected_systems = Append(@, entry)]

\* flatten_sequential pushing nothing when every system of the referenced
\* workload is in collected_systems already
flatten_sequential_once(acc, sequential) ==
    IF /\ sequential # <<>>
       /\ \A k \in 1..Len(sequential) :
             \E e \in 1..Len(acc.collected_systems) :
                 acc.collected_systems[e].index = sequential[k]
    THEN acc
    ELSE [acc EXCEPT !.collected_systems = @ \o
            [k \in 1..Len(sequential) |->
                [type_id |-> acc.system_generators[sequential[k] + 1],
                 name |-> acc.system_names[sequential[k] + 1],
                 index |-> sequential[k],
                 borrow |-> generator(acc.system_generators[sequential[k] + 1])]]]

\* the records pushed for `workloads[&workload].sequential`
flatten_sequential(acc, sequential) ==
    [acc EXCEPT !.collected_systems = @ \o
        [k \in 1..Len(sequential) |->
            [type_id |-> acc.system_generators[sequential[k] + 1],
             name |-> acc.system_names[sequential[k] + 1],
             index |-> sequential[k],
             borrow |-> generator(acc.system_generators[sequential[k] + 1])]]]

\* flatten_work_unit over a list of work units; indexing `workloads` with a
\* label it does not hold panics and leaves what was pushed so far
RECURSIVE flatten_work_units(_, _, _)
flatten_work_units(acc, work_units, registered) ==
    IF work_units = <<>> \/ acc.panic THEN acc
    ELSE LET unit == Head(work_units)
             next == CASE unit.kind = "System" -> flatten_system(acc, unit)
                       [] unit.kind = "WorkloadName" ->
                            IF unit.label \in DOMAIN registered
                            THEN flatten_sequential(acc, registered[unit.label].sequential)
                            ELSE [acc EXCEPT !.panic = TRUE]
                       [] unit.kind = "Workload" ->
                            flatten_work_units(acc, unit.work_units, registered)
         IN flatten_work_units(next, Tail(work_units), registered)

\* the first top-level WorkloadName whose label is not registered
unknown_workload(work_units, registered) ==
    LET hits == {k \in 1..Len(work_units) :
                    /\ work_units[k].kind = "WorkloadName"
                    /\ work_units[k].label \notin DOMAIN registered}
    IN IF hits = {} THEN None
       ELSE Some(work_units[CHOOSE k \in hits : \A j \in hits : k <= j].label)

Ok(info) == [kind |-> "Ok", info |-> info]
AlreadyExists == [kind |-> "Err", error |-> "AlreadyExists"]
UnknownWorkload(parent, child) ==
    [kind |-> "Err", error |-> "UnknownWorkload", parent |-> parent, child |-> child]
Panic == [kind |-> "Panic"]

\* the Scheduler with the pool flatten_work_unit left
with_pool(reg, acc) ==
    [reg EXCEPT !.systems = acc.systems,
                !.system_names = acc.system_names,
                !.system_generators = acc.system_generators,
                !.lookup_table = acc.lookup_table]

\* store_workload setting default to the label of every workload it stores
store_workload_default_always(builder, reg, acc, plan) ==
    [reg |-> [with_pool(reg, acc) EXCEPT
                  !.default = builder.name,
                  !.workloads = @ @@ (builder.name :>
                      [parallel |-> plan.parallel,
                       sequential |-> plan.sequential,
                       skip_if |-> builder.skip_if])],
     result |-> Ok([name |-> builder.name, batch_info |-> plan.batch_info]),
     plan |-> Some([collected_systems |-> acc.collected_systems, placed |-> plan.placed])]

\* store_workload leaving the skip_if of the stored Batches empty
store_workload_skip_if_dropped(builder, reg, acc, plan) ==
    [reg |-> [with_pool(reg, acc) EXCEPT
                  !.default = IF DOMAIN reg.workloads = {} THEN builder.name ELSE @,
                  !.workloads = @ @@ (builder.name :>
                      [parallel |-> plan.parallel,
                       sequential |-> plan.sequential,
                       skip_if |-> <<>>])],
     result |-> Ok([name |-> builder.name, batch_info |-> plan.batch_info]),
     plan |-> Some([collected_systems |-> acc.collected_systems, placed |-> plan.placed])]

\* store_workload adding the skip_if of every referenced workload to the
\* skip_if of the builder
store_workload_skip_if_inherited(builder, reg, acc, plan) ==
    [reg |-> [with_pool(reg, acc) EXCEPT
                  !.default = IF DOMAIN reg.workloads = {} THEN builder.name ELSE @,
                  !.workloads = @ @@ (builder.name :>
                      [parallel |-> plan.parallel,
                       sequential |-> plan.sequential,
                       skip_if |-> builder.skip_if \o
                           Concat([k \in 1..Len(builder.work_units) |->
                                      IF builder.work_units[k].kind = "WorkloadName"
                                      THEN reg.workloads[builder.work_units[k].label].skip_if
                                      ELSE <<>>])])],
     result |-> Ok([name |-> builder.name, batch_info |-> plan.batch_info]),
     plan |-> Some([collected_systems |-> acc.collected_systems, placed |-> plan.placed])]

\* the end of create_workload: default, the Batches stored under the label,
\* the WorkloadInfo returned
store_workload(builder, reg, acc, plan) ==
    [reg |-> [with_pool(reg, acc) EXCEPT
                  !.default = IF DOMAIN reg.workloads = {} THEN builder.name ELSE @,
                  !.workloads = @ @@ (builder.name :>
                      [parallel |-> plan.parallel,
                       sequential |-> plan.sequential,
                       skip_if |-> builder.skip_if])],
     result |-> Ok([name |-> builder.name, batch_info |-> plan.batch_info]),
     plan |-> Some([collected_systems |-> acc.collected_systems, placed |-> plan.placed])]

\* create_workload once the work units are flattened into acc
plan_workload(builder, reg, acc) ==
    IF acc.panic
    THEN [reg |-> with_pool(reg, acc), result |-> Panic, plan |-> None]
    ELSE store_workload(builder, reg, acc, plan_batches(acc.collected_systems))

\* register_empty returning Ok without inserting the label
register_empty_not_stored(builder, reg) ==
    [reg |-> reg,
     result |-> Ok([name |-> builder.name, batch_info |-> <<>>]),
     plan |-> None]

\* create_workload of a builder without work units
register_empty(builder, reg) ==
    [reg |-> [reg EXCEPT !.default = IF DOMAIN reg.workloads = {} THEN builder.name ELSE @,
                         !.workloads = @ @@ (builder.name :> DefaultBatches)],
     result |-> Ok([name |-> builder.name, batch_info |-> <<>>]),
     plan |-> Some([collected_systems |-> <<>>, placed |-> <<>>])]

\* what flatten_work_unit is given: the pool and an empty collected_systems
flatten_start(reg) ==
    [systems |-> reg.systems, system_names |-> reg.system_names,
     system_generators |-> reg.system_generators,
     lookup_table |-> reg.lookup_table,
     collected_systems |-> <<>>, panic |-> FALSE]

\* create_workload past its first test: the registry it leaves, what it
\* returns, and the record of collected_systems and of the `valid` of every
\* placement
register_workload(builder, reg) ==
    IF builder.work_units = <<>>
    THEN register_empty(builder, reg)
    ELSE IF unknown_workload(builder.work_units, reg.workloads) # None
    THEN [reg |-> reg,
          result |-> UnknownWorkload(builder.name,
                                     unknown_workload(builder.work_units, reg.workloads)[1]),
          plan |-> None]
    ELSE plan_workload(builder, reg,
                       flatten_work_units(flatten_start(reg), builder.work_units,
                                          reg.workloads))

\* create_workload without the test of the label
create_workload_label_unchecked(builder, reg) == register_workload(builder, reg)

\* create_workload
create_workload(builder, reg) ==
    IF builder.name \in DOMAIN reg.workloads
    THEN [reg |-> reg, result |-> AlreadyExists, plan |-> None]
    ELSE register_workload(builder, reg)

(***************************************************************************)
(* State machine.                                                          *)
(***************************************************************************)
Slots == {1, 2}

Idle ==
    [state |-> "idle", count |-> 0, source |-> "", batches |-> DefaultBatches,
     generators |-> <<>>, placed |-> <<>>, before |-> EmptyFcn, skipped |-> FALSE,
     batch |-> 0, completed |-> 0, pending |-> {}, active |-> {}, failed |-> FALSE,
     error |-> None, executed |-> <<>>]

\* the Scheduler of the world
Registry ==
    [systems |-> systems, system_names |-> system_names,
     system_generators |-> system_generators, lookup_table |-> lookup_table,
     workloads |-> workloads, default |-> default]

\* World::new() and no builder made yet
Init ==
    /\ systems = <<>>
    /\ system_names = <<>>
    /\ system_generators = <<>>
    /\ lookup_table = EmptyFcn
    /\ workloads = EmptyFcn
    /\ default = ""
    /\ builders = [slot \in Slots |-> None]
    /\ scheduled = None
    /\ consumed = None
    /\ result = None
    /\ plans = EmptyFcn
    /\ units_added = 0
    /\ panicked = FALSE
    /\ writers = {}
    /\ run = Idle
    /\ storages = EmptyFcn

registry_vars == <<systems, system_names, system_generators, lookup_table, workloads,
                   default, plans, panicked, writers>>

\* WorkloadBuilder::new(label)
new(slot, label) ==
    /\ builders[slot] = None
    /\ builders' = [builders EXCEPT ![slot] = Some(new_builder(label))]
    /\ UNCHANGED <<registry_vars, scheduled, consumed, result, units_added, run, storages>>

\* the push of one work unit on work_units
push_unit(slot, unit) ==
    /\ builders[slot] # None
    /\ units_added + unit_count(<<unit>>) <= MaxUnits
    /\ builders' = [builders EXCEPT ![slot] =
                        Some([@[1] EXCEPT !.work_units = Append(@, unit)])]
    /\ units_added' = units_added + unit_count(<<unit>>)
    /\ UNCHANGED <<registry_vars, scheduled, consumed, result, run, storages>>

\* WorkloadBuilder::with_system given a system function
with_system(slot, type_id) == push_unit(slot, SystemUnit(type_id))

\* WorkloadBuilder::with_workload
with_workload(slot, label) == push_unit(slot, WorkloadNameUnit(label))

\* WorkloadBuilder::with_system given a WorkloadSystem::Workload
with_system_workload(slot, work_units) == push_unit(slot, WorkloadUnit(work_units))

\* append putting the work units of `other` before those of `self`
append_other_first(slot, other) ==
    /\ slot # other
    /\ builders[slot] # None
    /\ builders[other] # None
    /\ builders' = [builders EXCEPT
                        ![slot] = Some([@[1] EXCEPT !.work_units =
                                            builders[other][1].work_units \o @]),
                        ![other] = Some([@[1] EXCEPT !.work_units = <<>>])]
    /\ UNCHANGED <<registry_vars, scheduled, consumed, result, units_added, run, storages>>

\* WorkloadBuilder::append
append(slot, other) ==
    /\ slot # other
    /\ builders[slot] # None
    /\ builders[other] # None
    /\ builders' = [builders EXCEPT
                        ![slot] = Some([@[1] EXCEPT !.work_units =
                                            @ \o builders[other][1].work_units]),
                        ![other] = Some([@[1] EXCEPT !.work_units = <<>>])]
    /\ UNCHANGED <<registry_vars, scheduled, consumed, result, units_added, run, storages>>

\* WorkloadBuilder::skip_if
skip_if(slot, should_skip) ==
    /\ builders[slot] # None
    /\ Len(builders[slot][1].skip_if) < MaxSkip
    /\ units_added < MaxUnits
    /\ builders' = [builders EXCEPT ![slot] =
                        Some([@[1] EXCEPT !.skip_if = Append(@, should_skip)])]
    /\ units_added' = units_added + 1
    /\ UNCHANGED <<registry_vars, scheduled, consumed, result, run, storages>>

\* WorkloadBuilder::add_to_world: the Scheduler is borrowed exclusively,
\* which fails while a run of a workload of the world holds it shared or
\* another add_to_world holds it exclusively
add_to_world(slot) ==
    /\ builders[slot] # None
    /\ slot \notin writers
    /\ builders' = [builders EXCEPT ![slot] = None]
    /\ consumed' = builders[slot]
    /\ IF (run.state = "running" /\ run.source = "world") \/ writers # {}
       THEN /\ result' = [kind |-> "Err", error |-> "Borrow"]
            /\ UNCHANGED registry_vars
       ELSE \E out \in {create_workload(builders[slot][1], Registry)} :
               /\ systems' = out.reg.systems
               /\ system_names' = out.reg.system_names
               /\ system_generators' = out.reg.system_generators
               /\ lookup_table' = out.reg.lookup_table
               /\ workloads' = out.reg.workloads
               /\ default' = out.reg.default
               /\ result' = out.result
               /\ plans' = IF out.plan = None THEN plans
                           ELSE plans @@ (builders[slot][1].name :> out.plan[1])
               /\ panicked' = (panicked \/ out.result = Panic)
               /\ writers' = writers
    /\ UNCHANGED <<scheduled, units_added, run, storages>>

\* build running create_workload on the pool and the workloads of the world
build_on_world_pool(slot) ==
    /\ builders[slot] # None
    /\ builders' = [builders EXCEPT ![slot] = None]
    /\ consumed' = builders[slot]
    /\ \E out \in {create_workload(builders[slot][1], Registry)} :
          /\ result' = IF out.result.kind = "Ok"
                       THEN Ok(out.result.info) ELSE out.result
          /\ scheduled' = IF out.result.kind = "Ok"
                          THEN Some([name |-> builders[slot][1].name,
                                     systems |-> out.reg.systems,
                                     system_names |-> out.reg.system_names,
                                     system_generators |-> out.reg.system_generators,
                                     lookup_table |-> out.reg.lookup_table,
                                     workloads |-> out.reg.workloads,
                                     plans |-> (builders[slot][1].name :> out.plan[1])])
                          ELSE scheduled
    /\ UNCHANGED <<registry_vars, units_added, run, storages>>

\* WorkloadBuilder::build: create_workload on the empty pool of a new ScheduledWorkload
build(slot) ==
    /\ builders[slot] # None
    /\ builders' = [builders EXCEPT ![slot] = None]
    /\ consumed' = builders[slot]
    /\ \E out \in {create_workload(builders[slot][1], EmptyRegistry)} :
          /\ result' = IF out.result.kind = "Ok"
                       THEN Ok(out.result.info) ELSE out.result
          /\ scheduled' = IF out.result.kind = "Ok"
                          THEN Some([name |-> builders[slot][1].name,
                                     systems |-> out.reg.systems,
                                     system_names |-> out.reg.system_names,
                                     system_generators |-> out.reg.system_generators,
                                     lookup_table |-> out.reg.lookup_table,
                                     workloads |-> out.reg.workloads,
                                     plans |-> (builders[slot][1].name :> out.plan[1])])
                          ELSE scheduled
    /\ UNCHANGED <<registry_vars, units_added, run, storages>>

Next ==
    \/ \E slot \in Slots, label \in Labels : new(slot, label)
    \/ \E slot \in Slots, type_id \in RegSystems : with_system(slot, type_id)
    \/ \E slot \in Slots, label \in Labels : with_workload(slot, label)
    \/ \E slot \in Slots, work_units \in InlineWorkloads(MaxUnits - units_added) :
          with_system_workload(slot, work_units)
    \/ \E slot \in Slots, other \in Slots : append(slot, other)
    \/ \E slot \in Slots, should_skip \in Predicates : skip_if(slot, should_skip)
    \/ \E slot \in Slots : add_to_world(slot)

Spec == Init /\ [][Next]_vars

(***************************************************************************)
(* Planning of one workload: the builder is any list of at most MaxSystems *)
(* systems and is registered in a new world or built.                      *)
(***************************************************************************)
InitPlan ==
    /\ systems = <<>>
    /\ system_names = <<>>
    /\ system_generators = <<>>
    /\ lookup_table = EmptyFcn
    /\ workloads = EmptyFcn
    /\ default = ""
    /\ \E work_units \in SeqsUpTo({SystemUnit(type_id) : type_id \in Systems}, MaxSystems) :
          /\ builders = [slot \in Slots |->
                            IF slot = 1
                            THEN Some([new_builder("A") EXCEPT !.work_units = work_units])
                            ELSE None]
          /\ units_added = Len(work_units)
    /\ scheduled = None
    /\ consumed = None
    /\ result = None
    /\ plans = EmptyFcn
    /\ panicked = FALSE
    /\ writers = {}
    /\ run = Idle
    /\ storages = EmptyFcn

NextPlan ==
    \/ add_to_world(1)
    \/ build(1)

SpecPlan == InitPlan /\ [][NextPlan]_vars

(***************************************************************************)
(* Skip predicates over a storage.  Here `storages` holds, for every        *)
(* storage present in the world, the number of its components and how it   *)
(* is borrowed; builder 1 installs predicates and they are evaluated        *)
(* against the world as it is at that moment.                              *)
(***************************************************************************)
MaxComponents == 1

\* the storages the predicates and the world of this part range over
SkipTypes == {"Usize"}

SkipStorageIds ==
    {StorageId_of("SparseSet<" \o t \o ">") : t \in SkipTypes}
        \cup {StorageId_of("UniqueStorage<" \o t \o ">") : t \in SkipTypes}

\* AllStorages::custom_storage_by_id: a shared borrow of the storage
custom_storage_by_id(all_storages, storage_id) ==
    IF storage_id \notin DOMAIN all_storages
    THEN [kind |-> "Err", error |-> "MissingStorage"]
    ELSE IF all_storages[storage_id].borrow = "exclusive"
         THEN [kind |-> "Err", error |-> "StorageBorrow"]
         ELSE [kind |-> "Ok", is_empty |-> all_storages[storage_id].len = 0]

\* the closure taking every failure of the lookup for an empty storage
should_skip_on_any_error(all_storages, storage_id) ==
    IF custom_storage_by_id(all_storages, storage_id).kind = "Ok"
    THEN custom_storage_by_id(all_storages, storage_id).is_empty
    ELSE TRUE

\* the closure should_skip made by skip_if_storage_empty_by_id
should_skip(all_storages, storage_id) ==
    IF custom_storage_by_id(all_storages, storage_id).kind = "Ok"
    THEN custom_storage_by_id(all_storages, storage_id).is_empty
    ELSE IF custom_storage_by_id(all_storages, storage_id).error = "MissingStorage"
         THEN TRUE
         ELSE FALSE

\* the predicate as it is kept in skip_if: the storage_id the closure captured
StorageEmpty(storage_id) == [kind |-> "storage_empty", storage_id |-> storage_id]

\* WorkloadBuilder::skip_if_storage_empty_by_id
skip_if_storage_empty_by_id(slot, storage_id) == skip_if(slot, StorageEmpty(storage_id))

\* WorkloadBuilder::skip_if_storage_empty::<T>
skip_if_storage_empty(slot, t) ==
    skip_if_storage_empty_by_id(slot, StorageId_of("SparseSet<" \o t \o ">"))

\* WorkloadBuilder::skip_if_missing_unique::<T>
skip_if_missing_unique(slot, t) ==
    skip_if_storage_empty_by_id(slot, StorageId_of("UniqueStorage<" \o t \o ">"))

world_vars == <<registry_vars, builders, scheduled, consumed, units_added, run>>

\* a component or a unique is added: the storage is made if it is missing
add_component(storage_id) ==
    /\ storage_id \in DOMAIN storages => /\ storages[storage_id].borrow = "free"
                                          /\ storages[storage_id].len < MaxComponents
    /\ storages' = IF storage_id \in DOMAIN storages
                   THEN [storages EXCEPT ![storage_id].len = @ + 1]
                   ELSE storages @@ (storage_id :> [len |-> 1, borrow |-> "free"])
    /\ UNCHANGED <<world_vars, result>>

\* a component is removed: the storage stays, maybe empty
remove_component(storage_id) ==
    /\ storage_id \in DOMAIN storages
    /\ storages[storage_id].borrow = "free"
    /\ storages[storage_id].len > 0
    /\ storages' = [storages EXCEPT ![storage_id].len = @ - 1]
    /\ UNCHANGED <<world_vars, result>>

\* a view of the storage is taken elsewhere
borrow_storage(storage_id, mode) ==
    /\ storage_id \in DOMAIN storages
    /\ storages[storage_id].borrow = "free"
    /\ storages' = [storages EXCEPT ![storage_id].borrow = mode]
    /\ UNCHANGED <<world_vars, result>>

\* and dropped
release_storage(storage_id) ==
    /\ storage_id \in DOMAIN storages
    /\ storages[storage_id].borrow # "free"
    /\ storages' = [storages EXCEPT ![storage_id].borrow = "free"]
    /\ UNCHANGED <<world_vars, result>>

\* the k-th skip predicate of the builder is called with the AllStoragesView
evaluate(slot, k) ==
    /\ builders[slot] # None
    /\ k \in 1..Len(builders[slot][1].skip_if)
    /\ result' = Some(should_skip(storages, builders[slot][1].skip_if[k].storage_id))
    /\ UNCHANGED <<world_vars, storages>>

InitSkip ==
    /\ systems = <<>>
    /\ system_names = <<>>
    /\ system_generators = <<>>
    /\ lookup_table = EmptyFcn
    /\ workloads = EmptyFcn
    /\ default = ""
    /\ builders = [slot \in Slots |-> IF slot = 1 THEN Some(new_builder("A")) ELSE None]
    /\ units_added = 0
    /\ scheduled = None
    /\ consumed = None
    /\ result = None
    /\ plans = EmptyFcn
    /\ panicked = FALSE
    /\ writers = {}
    /\ run = Idle
    /\ storages = EmptyFcn

NextSkip ==
    \/ \E storage_id \in SkipStorageIds : skip_if_storage_empty_by_id(1, storage_id)
    \/ \E t \in SkipTypes : skip_if_storage_empty(1, t)
    \/ \E t \in SkipTypes : skip_if_missing_unique(1, t)
    \/ \E storage_id \in SkipStorageIds : add_component(storage_id)
    \/ \E storage_id \in SkipStorageIds : remove_component(storage_id)
    \/ \E storage_id \in SkipStorageIds, mode \in {"shared", "exclusive"} :
          borrow_storage(storage_id, mode)
    \/ \E storage_id \in SkipStorageIds : release_storage(storage_id)
    \/ \E k \in 1..MaxSkip : evaluate(1, k)

SpecSkip == InitSkip /\ [][NextSkip]_vars

(***************************************************************************)
(* Referencing a workload: builder A holds at most MaxNest systems,        *)
(* builder B at most MaxNest systems and references to A; both are         *)
(* registered in a new world, in either order.                             *)
(***************************************************************************)
MaxNest == 3

InitNest ==
    /\ systems = <<>>
    /\ system_names = <<>>
    /\ system_generators = <<>>
    /\ lookup_table = EmptyFcn
    /\ workloads = EmptyFcn
    /\ default = ""
    /\ \E a \in SeqsUpTo({SystemUnit(type_id) : type_id \in RegSystems}, MaxNest) :
       \E b \in SeqsUpTo({SystemUnit(type_id) : type_id \in RegSystems}
                            \cup {WorkloadNameUnit("A")}, MaxNest) :
          /\ builders = [slot \in Slots |->
                            IF slot = 1
                            THEN Some([new_builder("A") EXCEPT !.work_units = a])
                            ELSE Some([new_builder("B") EXCEPT !.work_units = b])]
          /\ units_added = Len(a) + Len(b)
    /\ scheduled = None
    /\ consumed = None
    /\ result = None
    /\ plans = EmptyFcn
    /\ panicked = FALSE
    /\ writers = {}
    /\ run = Idle
    /\ storages = EmptyFcn

NextNest == \E slot \in Slots : add_to_world(slot)

SpecNest == InitNest /\ [][NextNest]_vars

(***************************************************************************)
(* Appending builders: two builders, each filled with at most MaxAppend    *)
(* systems and with or without a skip predicate, are appended to each      *)
(* other and registered in a new world.                                    *)
(***************************************************************************)
MaxAppend == 2

InitAppend ==
    /\ systems = <<>>
    /\ system_names = <<>>
    /\ system_generators = <<>>
    /\ lookup_table = EmptyFcn
    /\ workloads = EmptyFcn
    /\ default = ""
    /\ \E a, b \in SeqsUpTo({SystemUnit(type_id) : type_id \in AppendSystems}, MaxAppend) :
       \E skip_a \in {<<>>, <<"skip">>}, skip_b \in {<<>>, <<"keep">>} :
          /\ builders = [slot \in Slots |->
                            IF slot = 1
                            THEN Some([new_builder("A") EXCEPT !.work_units = a,
                                                               !.skip_if = skip_a])
                            ELSE Some([new_builder("B") EXCEPT !.work_units = b,
                                                               !.skip_if = skip_b])]
          /\ units_added = Len(a) + Len(b)
    /\ scheduled = None
    /\ consumed = None
    /\ result = None
    /\ plans = EmptyFcn
    /\ panicked = FALSE
    /\ writers = {}
    /\ run = Idle
    /\ storages = EmptyFcn

NextAppend ==
    \/ \E slot \in Slots, other \in Slots : append(slot, other)
    \/ \E slot \in Slots : add_to_world(slot)

SpecAppend == InitAppend /\ [][NextAppend]_vars

(***************************************************************************)
(* Execution of a workload (World::run_workload, World::run_batches):      *)
(* batch by batch, the systems of one batch in any interleaving.  A system *)
(* takes its borrows when it starts and works on what it saw then; what it *)
(* writes is a function of what it saw, kept uninterpreted as the record   *)
(* of the system and of the values seen.                                   *)
(***************************************************************************)
\* the storages of the world
StorageIds ==
    UNION {{generator(t)[i].storage_id : i \in 1..Len(generator(t))} : t \in Systems}
        \ {AllStoragesId}

\* the storages a borrow list gives access to
accessed(borrow) ==
    IF \E i \in 1..Len(borrow) : borrow[i].storage_id = AllStoragesId
    THEN StorageIds
    ELSE {borrow[i].storage_id : i \in 1..Len(borrow)}

\* the storages a borrow list allows to change
written(borrow) ==
    IF \E i \in 1..Len(borrow) : borrow[i].storage_id = AllStoragesId
    THEN StorageIds
    ELSE {borrow[i].storage_id : i \in {j \in 1..Len(borrow) : borrow[j].mutability = Exclusive}}

\* what a system sees when it takes its borrows
snapshot_of(st, type_id) == [s \in accessed(generator(type_id)) |-> st[s]]

\* the storages after a system wrote what it computed from its snapshot
write_back(st, type_id, snapshot) ==
    [s \in DOMAIN st |->
        IF s \in written(generator(type_id))
        THEN Append(snapshot[s], [by |-> type_id, saw |-> snapshot])
        ELSE st[s]]

\* one system run alone
run_system(st, type_id) == write_back(st, type_id, snapshot_of(st, type_id))

\* the systems of the positions of `sequential` placed in the first
\* `completed` batches, run one after another in the order of `sequential`
RECURSIVE run_sequential(_, _, _, _, _, _)
run_sequential(st, sequential, generators, placed, completed, k) ==
    IF k > Len(sequential) THEN st
    ELSE run_sequential(IF placed[k] < completed
                        THEN run_system(st, generators[sequential[k] + 1])
                        ELSE st,
                        sequential, generators, placed, completed, k + 1)

\* the entries of a batch: 0 is the main slot, k the k-th of the parallel list
batch_slots(batch) == (IF batch[1] = None THEN {} ELSE {0}) \cup (1..Len(batch[2]))

slot_index(batch, slot) == IF slot = 0 THEN batch[1][1] ELSE batch[2][slot]

\* World::run_batches up to the dispatch of the first batch: the skip_if
\* predicates are evaluated first
run_batches(source, batches, generators, placed) ==
    /\ run.state # "running"
    /\ LET skipped == "skip" \in Range(batches.skip_if)
           empty == batches.parallel = <<>>
       IN run' = [state |-> IF skipped \/ empty THEN "done" ELSE "running",
                  count |-> run.count + 1,
                  source |-> source,
                  batches |-> batches,
                  generators |-> generators,
                  placed |-> placed,
                  before |-> storages,
                  skipped |-> skipped,
                  batch |-> 0,
                  completed |-> 0,
                  pending |-> IF skipped \/ empty THEN {}
                              ELSE batch_slots(batches.parallel[1]),
                  active |-> {},
                  failed |-> FALSE,
                  error |-> None,
                  executed |-> EmptyFcn]
    /\ UNCHANGED <<registry_vars, builders, scheduled, consumed, result, units_added, storages>>

\* World::run_workload
run_workload(label) ==
    /\ label \in DOMAIN workloads
    /\ run_batches("world", workloads[label], system_generators, plans[label].placed)

\* ScheduledWorkload::run_with_world
run_with_world ==
    /\ scheduled # None
    /\ run_batches("scheduled", scheduled[1].workloads[scheduled[1].name],
                   scheduled[1].system_generators,
                   scheduled[1].plans[scheduled[1].name].placed)

\* a dispatched system starts on its worker and takes its borrows
start_system(slot) ==
    /\ run.state = "running"
    /\ slot \in run.pending
    /\ LET index == slot_index(run.batches.parallel[run.batch + 1], slot)
           type_id == run.generators[index + 1]
       IN run' = [run EXCEPT !.pending = @ \ {slot},
                             !.active = @ \cup {[slot |-> slot, type_id |-> type_id,
                                                 snapshot |-> snapshot_of(storages, type_id)]}]
    /\ UNCHANGED <<registry_vars, builders, scheduled, consumed, result, units_added, storages>>

\* one more call of the system counted
bump(executed, type_id) ==
    IF type_id \in DOMAIN executed
    THEN [executed EXCEPT ![type_id] = @ + 1]
    ELSE executed @@ (type_id :> 1)

\* finish_system keeping the error of the system that failed last
finish_system_last_error(system, failed) ==
    /\ run.state = "running"
    /\ system \in run.active
    /\ failed => system.type_id \in Fallible
    /\ storages' = write_back(storages, system.type_id, system.snapshot)
    /\ run' = [run EXCEPT !.active = @ \ {system}, !.failed = @ \/ failed,
                          !.error = IF failed THEN Some(system.type_id) ELSE @,
                          !.executed = bump(@, system.type_id)]
    /\ UNCHANGED <<registry_vars, builders, scheduled, consumed, result, units_added>>

\* a running system writes and returns, with an error or without; the run
\* keeps the first error, here named by the system that returned it, and
\* counts the calls of every system
finish_system(system, failed) ==
    /\ run.state = "running"
    /\ system \in run.active
    /\ failed => system.type_id \in Fallible
    /\ storages' = write_back(storages, system.type_id, system.snapshot)
    /\ run' = [run EXCEPT !.active = @ \ {system}, !.failed = @ \/ failed,
                          !.error = IF failed /\ @ = None THEN Some(system.type_id) ELSE @,
                          !.executed = bump(@, system.type_id)]
    /\ UNCHANGED <<registry_vars, builders, scheduled, consumed, result, units_added>>

\* end_batch going on as soon as every system of the batch has started
end_batch_before_join ==
    /\ run.state = "running"
    /\ run.pending = {}
    /\ run' = IF run.failed \/ run.batch + 1 = Len(run.batches.parallel)
              THEN [run EXCEPT !.state = "done", !.completed = run.batch + 1]
              ELSE [run EXCEPT !.batch = @ + 1, !.completed = run.batch + 1,
                               !.pending = batch_slots(run.batches.parallel[run.batch + 2])]
    /\ UNCHANGED <<registry_vars, builders, scheduled, consumed, result, units_added, storages>>

\* the whole batch completed: stop on an error, else dispatch the next batch
end_batch ==
    /\ run.state = "running"
    /\ run.pending = {}
    /\ run.active = {}
    /\ run' = IF run.failed \/ run.batch + 1 = Len(run.batches.parallel)
              THEN [run EXCEPT !.state = "done", !.completed = run.batch + 1]
              ELSE [run EXCEPT !.batch = @ + 1, !.completed = run.batch + 1,
                               !.pending = batch_slots(run.batches.parallel[run.batch + 2])]
    /\ UNCHANGED <<registry_vars, builders, scheduled, consumed, result, units_added, storages>>

InitRun ==
    /\ systems = <<>>
    /\ system_names = <<>>
    /\ system_generators = <<>>
    /\ lookup_table = EmptyFcn
    /\ workloads = EmptyFcn
    /\ default = ""
    /\ \E work_units \in SeqsUpTo({SystemUnit(type_id) : type_id \in RunSystems}, MaxRunSystems) :
       \E predicates \in SeqsUpTo(Predicates, MaxSkip) :
          /\ builders = [slot \in Slots |->
                            IF slot = 1
                            THEN Some([new_builder("A") EXCEPT !.work_units = work_units,
                                                               !.skip_if = predicates])
                            ELSE Some([new_builder("B") EXCEPT
                                          !.work_units = <<SystemUnit("sys_w")>>])]
          /\ units_added = Len(work_units) + Len(predicates) + 1
    /\ scheduled = None
    /\ consumed = None
    /\ result = None
    /\ plans = EmptyFcn
    /\ panicked = FALSE
    /\ writers = {}
    /\ run = Idle
    /\ storages = [s \in StorageIds |-> <<>>]

NextRun ==
    \/ \E slot \in Slots : add_to_world(slot)
    \/ build(1)
    \/ run.count < MaxRuns /\ \E label \in Labels : run_workload(label)
    \/ run.count < MaxRuns /\ run_with_world
    \/ \E slot \in 0..MaxRunSystems : start_system(slot)
    \/ \E system \in run.active, failed \in BOOLEAN : finish_system(system, failed)
    \/ end_batch

SpecRun == InitRun /\ [][NextRun]_vars

\* SpecRun with systems that terminate and workers that take what is
\* dispatched: a dispatched system starts, a started system returns, and
\* run_batches goes on once a batch is over
SpecRunFair ==
    /\ SpecRun
    /\ WF_vars(\E slot \in 0..MaxRunSystems : start_system(slot))
    /\ WF_vars(\E system \in run.active, failed \in BOOLEAN : finish_system(system, failed))
    /\ WF_vars(end_batch)

(***************************************************************************)
(* The borrow of the Scheduler.  add_to_world is taken in its two steps,   *)
(* the exclusive borrow and create_workload under it, so that two          *)
(* registrations and a run of a workload of the world can overlap.         *)
(***************************************************************************)
MaxBorrowUnits == 2

BorrowSystems == {"sys_r", "sys_w"}

\* borrow_mut succeeding while another add_to_world holds the Scheduler
borrow_mut_readers_only(slot) ==
    /\ builders[slot] # None
    /\ slot \notin writers
    /\ IF run.state = "running" /\ run.source = "world"
       THEN /\ result' = [kind |-> "Err", error |-> "Borrow"]
            /\ builders' = [builders EXCEPT ![slot] = None]
            /\ consumed' = builders[slot]
            /\ UNCHANGED registry_vars
       ELSE /\ writers' = writers \cup {slot}
            /\ UNCHANGED <<systems, system_names, system_generators, lookup_table,
                           workloads, default, plans, panicked, builders, consumed, result>>
    /\ UNCHANGED <<scheduled, units_added, run, storages>>

\* world.scheduler.borrow_mut().map_err(|_| error::AddWorkload::Borrow)?: the
\* call returns Borrow at once when the Scheduler is borrowed, by a run or
\* by another add_to_world, and else holds it exclusively
borrow_mut(slot) ==
    /\ builders[slot] # None
    /\ slot \notin writers
    /\ IF (run.state = "running" /\ run.source = "world") \/ writers # {}
       THEN /\ result' = [kind |-> "Err", error |-> "Borrow"]
            /\ builders' = [builders EXCEPT ![slot] = None]
            /\ consumed' = builders[slot]
            /\ UNCHANGED registry_vars
       ELSE /\ writers' = writers \cup {slot}
            /\ UNCHANGED <<systems, system_names, system_generators, lookup_table,
                           workloads, default, plans, panicked, builders, consumed, result>>
    /\ UNCHANGED <<scheduled, units_added, run, storages>>

\* the rest of add_to_world: create_workload on the borrowed Scheduler, and
\* the borrow dropped when the call returns
create_workload_in_world(slot) ==
    /\ slot \in writers
    /\ builders' = [builders EXCEPT ![slot] = None]
    /\ consumed' = builders[slot]
    /\ \E out \in {create_workload(builders[slot][1], Registry)} :
          /\ systems' = out.reg.systems
          /\ system_names' = out.reg.system_names
          /\ system_generators' = out.reg.system_generators
          /\ lookup_table' = out.reg.lookup_table
          /\ workloads' = out.reg.workloads
          /\ default' = out.reg.default
          /\ result' = out.result
          /\ plans' = IF out.plan = None THEN plans
                      ELSE plans @@ (builders[slot][1].name :> out.plan[1])
          /\ panicked' = (panicked \/ out.result = Panic)
    /\ writers' = writers \ {slot}
    /\ UNCHANGED <<scheduled, units_added, run, storages>>

\* World::run_workload taking the shared borrow of the Scheduler: it fails
\* at once while an add_to_world holds the Scheduler exclusively
borrow_and_run_workload(label) ==
    IF writers # {}
    THEN /\ result' = [kind |-> "Err", error |-> "Scheduler"]
         /\ UNCHANGED <<registry_vars, builders, scheduled, consumed, units_added, run,
                        storages>>
    ELSE run_workload(label)

InitBorrow ==
    /\ systems = <<>>
    /\ system_names = <<>>
    /\ system_generators = <<>>
    /\ lookup_table = EmptyFcn
    /\ workloads = EmptyFcn
    /\ default = ""
    /\ \E a \in SeqsUpTo({SystemUnit(type_id) : type_id \in BorrowSystems}, MaxBorrowUnits) :
       \E b \in SeqsUpTo({SystemUnit(type_id) : type_id \in BorrowSystems}, MaxBorrowUnits) :
       \E label \in Labels :
          /\ builders = [slot \in Slots |->
                            IF slot = 1
                            THEN Some([new_builder("A") EXCEPT !.work_units = a])
                            ELSE Some([new_builder(label) EXCEPT !.work_units = b])]
          /\ units_added = Len(a) + Len(b)
    /\ scheduled = None
    /\ consumed = None
    /\ result = None
    /\ plans = EmptyFcn
    /\ panicked = FALSE
    /\ writers = {}
    /\ run = Idle
    /\ storages = [s \in StorageIds |-> <<>>]

NextBorrow ==
    \/ \E slot \in Slots : borrow_mut(slot)
    \/ \E slot \in Slots : create_workload_in_world(slot)
    \/ run.count < MaxRuns /\ \E label \in Labels : borrow_and_run_workload(label)
    \/ \E slot \in 0..MaxBorrowUnits : start_system(slot)
    \/ \E system \in run.active : finish_system(system, FALSE)
    \/ end_batch

SpecBorrow == InitBorrow /\ [][NextBorrow]_vars

(***************************************************************************)
(* Two systems in both orders: builder A declares (s1, s2), builder B      *)
(* declares (s2, s1), and both are registered in one world.                *)
(***************************************************************************)
InitSwap ==
    /\ systems = <<>>
    /\ system_names = <<>>
    /\ system_generators = <<>>
    /\ lookup_table = EmptyFcn
    /\ workloads = EmptyFcn
    /\ default = ""
    /\ \E s1 \in Systems, s2 \in Systems :
          builders = [slot \in Slots |->
                         IF slot = 1
                         THEN Some([new_builder("A") EXCEPT
                                       !.work_units = <<SystemUnit(s1), SystemUnit(s2)>>])
                         ELSE Some([new_builder("B") EXCEPT
                                       !.work_units = <<SystemUnit(s2), SystemUnit(s1)>>])]
    /\ units_added = 4
    /\ scheduled = None
    /\ consumed = None
    /\ result = None
    /\ plans = EmptyFcn
    /\ panicked = FALSE
    /\ writers = {}
    /\ run = Idle
    /\ storages = EmptyFcn

NextSwap == \E slot \in Slots : add_to_world(slot)

SpecSwap == InitSwap /\ [][NextSwap]_vars

(***************************************************************************)
(* Skip predicates and references.  Builder A holds systems and may hold a *)
(* predicate that returns true; builder B holds systems and references to  *)
(* A and may hold a predicate that returns false; both are registered and  *)
(* one of them is run.                                                     *)
(***************************************************************************)
MaxInherit == 2

InheritSystems == {"sys_r", "sys_w"}

InitInherit ==
    /\ systems = <<>>
    /\ system_names = <<>>
    /\ system_generators = <<>>
    /\ lookup_table = EmptyFcn
    /\ workloads = EmptyFcn
    /\ default = ""
    /\ \E a \in SeqsUpTo({SystemUnit(type_id) : type_id \in InheritSystems}, MaxInherit) :
       \E b \in SeqsUpTo({SystemUnit("sys_r"), WorkloadNameUnit("A")}, MaxInherit) :
       \E skip_a \in {<<>>, <<"skip">>}, skip_b \in {<<>>, <<"keep">>} :
          /\ builders = [slot \in Slots |->
                            IF slot = 1
                            THEN Some([new_builder("A") EXCEPT !.work_units = a,
                                                               !.skip_if = skip_a])
                            ELSE Some([new_builder("B") EXCEPT !.work_units = b,
                                                               !.skip_if = skip_b])]
          /\ units_added = Len(a) + Len(b) + Len(skip_a) + Len(skip_b)
    /\ scheduled = None
    /\ consumed = None
    /\ result = None
    /\ plans = EmptyFcn
    /\ panicked = FALSE
    /\ writers = {}
    /\ run = Idle
    /\ storages = [s \in StorageIds |-> <<>>]

NextInherit ==
    \/ \E slot \in Slots : add_to_world(slot)
    \/ run.count < MaxRuns /\ \E label \in Labels : run_workload(label)
    \/ \E slot \in 0..(MaxInherit * MaxInherit) : start_system(slot)
    \/ \E system \in run.active : finish_system(system, FALSE)
    \/ end_batch

SpecInherit == InitInherit /\ [][NextInherit]_vars

(***************************************************************************)
(* Presence of the unique storages a builder borrows.  Builder A holds     *)
(* systems and may be registered; builder B holds systems, inline          *)
(* workloads and references to A and is asked whether all its uniques are  *)
(* in the world, whose unique storages are any subset of UniqueStorageIds. *)
(***************************************************************************)
MaxUniqueUnits == 2

ComponentTypes == {"Usize", "U32"}

UniqueStorageIds == {StorageId_of("UniqueStorage<" \o t \o ">") : t \in ComponentTypes}

\* type_info.name.starts_with(unique_name)
starts_with_unique_name(name) == \E t \in ComponentTypes : name = "UniqueStorage<" \o t \o ">"

UniquePresenceOk == [kind |-> "Ok"]
UniquePresenceUnique(type_info) == [kind |-> "Err", error |-> "Unique", type_info |-> type_info]
UniquePresenceWorkload(label) == [kind |-> "Err", error |-> "Workload", label |-> label]
UniquePresenceAllStorages == [kind |-> "Err", error |-> "AllStorages"]

\* the first descriptor of the list that names a unique storage the world
\* does not hold: None when there is none
first_missing_unique(type_infos, present) ==
    LET hits == {k \in 1..Len(type_infos) :
                    /\ starts_with_unique_name(type_infos[k].name)
                    /\ type_infos[k].storage_id \notin present}
    IN IF hits = {} THEN None
       ELSE Some(type_infos[CHOOSE k \in hits : \A j \in hits : k <= j])

\* check_uniques_in_work_unit on WorkUnit::WorkloadName: the borrows of the
\* systems of the registered workload are pushed on type_infos, to be tested
\* after all work units; an unregistered label is an error at once
check_uniques_reference(acc, label, reg, present) ==
    IF label \notin DOMAIN reg.workloads
    THEN [acc EXCEPT !.value = Some(UniquePresenceWorkload(label))]
    ELSE [acc EXCEPT !.type_infos = @ \o
             Concat([k \in 1..Len(reg.workloads[label].sequential) |->
                        generator(reg.system_generators[
                            reg.workloads[label].sequential[k] + 1])])]

\* check_uniques_in_work_unit over a list of work units: it stops at the
\* first work unit that gives a value
RECURSIVE check_uniques_in_work_units(_, _, _, _)
check_uniques_in_work_units(acc, work_units, reg, present) ==
    IF work_units = <<>> \/ acc.value # None THEN acc
    ELSE LET unit == Head(work_units)
             next == CASE unit.kind = "System" ->
                            IF first_missing_unique(unit.borrow_constraints, present) # None
                            THEN [acc EXCEPT !.value = Some(UniquePresenceUnique(
                                     first_missing_unique(unit.borrow_constraints, present)[1]))]
                            ELSE acc
                       [] unit.kind = "WorkloadName" ->
                            check_uniques_reference(acc, unit.label, reg, present)
                       [] unit.kind = "Workload" ->
                            check_uniques_in_work_units(acc, unit.work_units, reg, present)
         IN check_uniques_in_work_units(next, Tail(work_units), reg, present)

\* what are_all_uniques_present_in_world returns once AllStorages and the
\* Scheduler are borrowed
uniques_present(checked, present) ==
    IF checked.value # None THEN checked.value[1]
    ELSE IF first_missing_unique(checked.type_infos, present) # None
         THEN UniquePresenceUnique(first_missing_unique(checked.type_infos, present)[1])
         ELSE UniquePresenceOk

\* WorkloadBuilder::are_all_uniques_present_in_world: AllStorages is
\* borrowed shared, which fails while a running system holds it exclusively
are_all_uniques_present_in_world(slot) ==
    /\ builders[slot] # None
    /\ result' =
          IF \E a \in run.active : \E k \in 1..Len(generator(a.type_id)) :
                /\ generator(a.type_id)[k].storage_id = AllStoragesId
                /\ generator(a.type_id)[k].mutability = Exclusive
          THEN UniquePresenceAllStorages
          ELSE uniques_present(
                   check_uniques_in_work_units([value |-> None, type_infos |-> <<>>],
                                               builders[slot][1].work_units,
                                               Registry, DOMAIN storages),
                   DOMAIN storages)
    /\ UNCHANGED <<registry_vars, builders, scheduled, consumed, units_added, run, storages>>

UniqueSystems == {"sys_uw", "sys_uw2", "sys_w"}

\* the work units of builder B
UniqueAtoms ==
    {SystemUnit(type_id) : type_id \in UniqueSystems}
        \cup {WorkloadNameUnit("A"),
              WorkloadUnit(<<SystemUnit("sys_uw2")>>),
              WorkloadUnit(<<WorkloadNameUnit("A")>>)}

InitUniques ==
    /\ systems = <<>>
    /\ system_names = <<>>
    /\ system_generators = <<>>
    /\ lookup_table = EmptyFcn
    /\ workloads = EmptyFcn
    /\ default = ""
    /\ \E a \in SeqsUpTo({SystemUnit(type_id) : type_id \in UniqueSystems}, MaxUniqueUnits) :
       \E b \in SeqsUpTo(UniqueAtoms, MaxUniqueUnits) :
          /\ builders = [slot \in Slots |->
                            IF slot = 1
                            THEN Some([new_builder("A") EXCEPT !.work_units = a])
                            ELSE Some([new_builder("B") EXCEPT !.work_units = b])]
          /\ units_added = Len(a) + Len(b)
    /\ scheduled = None
    /\ consumed = None
    /\ result = None
    /\ plans = EmptyFcn
    /\ panicked = FALSE
    /\ writers = {}
    /\ run = Idle
    /\ \E present \in SUBSET UniqueStorageIds : storages = [s \in present |-> <<>>]

NextUniques ==
    \/ add_to_world(1)
    \/ are_all_uniques_present_in_world(2)

SpecUniques == InitUniques /\ [][NextUniques]_vars

(***************************************************************************)
(* Local storages: a workload of at most MaxLocalSystems systems, among    *)
(* them two systems with a LocalViewMut over the same component type, is   *)
(* registered and run MaxLocalRuns times.                                  *)
(***************************************************************************)
MaxLocalSystems == 2
MaxLocalRuns == 2

LocalRunSystems == {"sys_local", "sys_local2", "sys_w"}

InitLocal ==
    /\ systems = <<>>
    /\ system_names = <<>>
    /\ system_generators = <<>>
    /\ lookup_table = EmptyFcn
    /\ workloads = EmptyFcn
    /\ default = ""
    /\ \E work_units \in SeqsUpTo({SystemUnit(type_id) : type_id \in LocalRunSystems},
                                   MaxLocalSystems) :
          /\ builders = [slot \in Slots |->
                            IF slot = 1
                            THEN Some([new_builder("A") EXCEPT !.work_units = work_units])
                            ELSE None]
          /\ units_added = Len(work_units)
    /\ scheduled = None
    /\ consumed = None
    /\ result = None
    /\ plans = EmptyFcn
    /\ panicked = FALSE
    /\ writers = {}
    /\ run = Idle
    /\ storages = [s \in StorageIds |-> <<>>]

NextLocal ==
    \/ add_to_world(1)
    \/ run.count < MaxLocalRuns /\ run_workload("A")
    \/ \E slot \in 0..MaxLocalSystems : start_system(slot)
    \/ \E system \in run.active : finish_system(system, FALSE)
    \/ end_batch

SpecLocal == InitLocal /\ [][NextLocal]_vars

(***************************************************************************)
(* Properties of the registered plans.                                     *)
(***************************************************************************)
\* every (Batches, pool, record of the planning) registered in the world or built
Registrations ==
    {[batches |-> workloads[l], generators |-> system_generators, plan |-> plans[l]] :
        l \in DOMAIN workloads}
    \cup {[batches |-> scheduled[k].workloads[scheduled[k].name],
           generators |-> scheduled[k].system_generators,
           plan |-> scheduled[k].plans[scheduled[k].name]] : k \in DOMAIN scheduled}

\* the borrow list of the system of a pool index
BorrowOf(r, index) == generator(r.generators[index + 1])

\* the pool indices of one batch: main slot, then parallel list
Entries(batch) == batch[1] \o batch[2]

\* the conflict rule between two descriptors
DescriptorsConflict(a, b) ==
    \/ ~a.thread_safe /\ ~b.thread_safe
    \/ a.storage_id = AllStoragesId
    \/ b.storage_id = AllStoragesId
    \/ /\ a.storage_id = b.storage_id
       /\ (a.mutability = Exclusive \/ b.mutability = Exclusive)

\* two systems conflict iff some pair of their descriptors conflicts
SystemsConflict(s, t) ==
    \E i \in 1..Len(s), j \in 1..Len(t) : DescriptorsConflict(s[i], t[j])

HoldsAllStorages(borrow) == \E i \in 1..Len(borrow) : borrow[i].storage_id = AllStoragesId

HoldsNonThreadSafe(borrow) == \E i \in 1..Len(borrow) : ~borrow[i].thread_safe

Count(seq, x) == Cardinality({k \in 1..Len(seq) : seq[k] = x})

\* C1: in every registered workload no two distinct entries of one batch
\* (main slot plus parallel list) conflict.
C1_BatchesConflictFree ==
    \A r \in Registrations : \A b \in 1..Len(r.batches.parallel) :
        LET e == Entries(r.batches.parallel[b])
        IN \A x, y \in 1..Len(e) :
              x # y => ~SystemsConflict(BorrowOf(r, e[x]), BorrowOf(r, e[y]))

\* a batch shared by two borrowing systems, in a plan that also had to
\* separate two systems
C1_Witness ==
    \E r \in Registrations :
        /\ Len(r.batches.parallel) >= 2
        /\ \E b \in 1..Len(r.batches.parallel) :
              LET e == Entries(r.batches.parallel[b])
              IN \E x, y \in 1..Len(e) :
                    /\ x # y
                    /\ BorrowOf(r, e[x]) # <<>>
                    /\ BorrowOf(r, e[y]) # <<>>
                    /\ e[x] # e[y]

\* C2: for positions i < j of the flattened list whose systems conflict, the
\* batch position i was placed in comes strictly before the batch position j
\* was placed in (and each position's batch holds its pool index).
C2_ConflictsKeepOrder ==
    \A r \in Registrations :
        LET c == r.plan.collected_systems
            placed == r.plan.placed
        IN /\ Len(placed) = Len(c)
           /\ \A j \in 1..Len(c) :
                 /\ placed[j] < Len(r.batches.parallel)
                 /\ c[j].index \in Range(Entries(r.batches.parallel[placed[j] + 1]))
           /\ \A i, j \in 1..Len(c) :
                 (i < j /\ SystemsConflict(c[i].borrow, c[j].borrow))
                    => placed[i] < placed[j]

\* two conflicting systems were separated and a later borrowing system,
\* which conflicts with neither, was placed ahead of the second
C2_Witness ==
    \E r \in Registrations :
        LET c == r.plan.collected_systems
            placed == r.plan.placed
        IN \E i, j, k \in 1..Len(c) :
              /\ i < j /\ j < k
              /\ SystemsConflict(c[i].borrow, c[j].borrow)
              /\ ~SystemsConflict(c[j].borrow, c[k].borrow)
              /\ ~SystemsConflict(c[i].borrow, c[k].borrow)
              /\ c[k].borrow # <<>>
              /\ placed[i] = placed[k]
              /\ placed[k] < placed[j]

\* C3: when a run of a workload has ended, every storage holds what running
\* the systems of the batches that were run, one after another in the order
\* of `sequential`, leaves in it; for a run without error these are all the
\* systems of the workload.
C3_BatchesRunAsSequential ==
    run.state = "done" =>
        /\ storages = run_sequential(run.before, run.batches.sequential, run.generators,
                                     run.placed, run.completed, 1)
        /\ (~run.failed /\ ~run.skipped) => run.completed = Len(run.batches.parallel)

\* a run ended without error after two batches, the first of which ran two
\* systems that write different storages
C3_Witness ==
    /\ run.state = "done"
    /\ ~run.failed
    /\ run.completed >= 2
    /\ \E x, y \in batch_slots(run.batches.parallel[1]) :
          LET bx == generator(run.generators[slot_index(run.batches.parallel[1], x) + 1])
              by == generator(run.generators[slot_index(run.batches.parallel[1], y) + 1])
          IN /\ x # y
             /\ written(bx) # {}
             /\ written(by) # {}
    /\ \E s \in StorageIds : Len(storages[s]) >= 2

\* C4: sequential lists the pool indices of the flattened systems in
\* declared order, and the entries of all batches are, as a multiset, the
\* entries of sequential.
C4_SequentialIsBatches ==
    \A r \in Registrations :
        LET c == r.plan.collected_systems
            seq == r.batches.sequential
            all == Concat([b \in 1..Len(r.batches.parallel) |-> Entries(r.batches.parallel[b])])
        IN /\ seq = [k \in 1..Len(c) |-> c[k].index]
           /\ Len(all) = Len(seq)
           /\ \A x \in Range(seq) \cup Range(all) : Count(all, x) = Count(seq, x)

\* a plan with a repeated system, a main slot that was filled after its
\* batch was created, and at least three entries
C4_Witness ==
    \E r \in Registrations :
        /\ Len(r.batches.sequential) >= 3
        /\ \E x \in Range(r.batches.sequential) : Count(r.batches.sequential, x) >= 2
        /\ \E b \in 1..Len(r.batches.parallel) :
              /\ r.batches.parallel[b][1] # None
              /\ r.batches.parallel[b][2] # <<>>

\* C5: a system is in a main slot iff it holds an AllStorages borrow or a
\* non-thread-safe borrow; systems of parallel lists hold neither.
C5_MainSlotIffPinned ==
    \A r \in Registrations : \A b \in 1..Len(r.batches.parallel) :
        LET batch == r.batches.parallel[b]
        IN /\ \A x \in 1..Len(batch[1]) :
                 \/ HoldsAllStorages(BorrowOf(r, batch[1][x]))
                 \/ HoldsNonThreadSafe(BorrowOf(r, batch[1][x]))
           /\ \A x \in 1..Len(batch[2]) :
                 /\ ~HoldsAllStorages(BorrowOf(r, batch[2][x]))
                 /\ ~HoldsNonThreadSafe(BorrowOf(r, batch[2][x]))

\* a non-thread-safe system in a main slot next to a parallel list
C5_Witness ==
    \E r \in Registrations : \E b \in 1..Len(r.batches.parallel) :
        LET batch == r.batches.parallel[b]
        IN /\ batch[1] # None
           /\ HoldsNonThreadSafe(BorrowOf(r, batch[1][1]))
           /\ ~HoldsAllStorages(BorrowOf(r, batch[1][1]))
           /\ batch[2] # <<>>

\* C6: no batch holds two different entries that each hold a non-thread-safe borrow.
C6_OneNonThreadSafePerBatch ==
    \A r \in Registrations : \A b \in 1..Len(r.batches.parallel) :
        LET e == Entries(r.batches.parallel[b])
        IN \A x, y \in 1..Len(e) :
              x # y => ~(/\ HoldsNonThreadSafe(BorrowOf(r, e[x]))
                         /\ HoldsNonThreadSafe(BorrowOf(r, e[y])))

\* two systems with non-thread-safe borrows on different storages were planned
C6_Witness ==
    \E r \in Registrations :
        LET c == r.plan.collected_systems
        IN \E i, j \in 1..Len(c) :
              /\ i < j
              /\ HoldsNonThreadSafe(c[i].borrow)
              /\ HoldsNonThreadSafe(c[j].borrow)
              /\ \A x \in 1..Len(c[i].borrow), y \in 1..Len(c[j].borrow) :
                    c[i].borrow[x].storage_id # c[j].borrow[y].storage_id
              /\ r.plan.placed[j] = r.plan.placed[i] + 1

\* C7: a system that borrows AllStorages shares its batch with no system
\* whose borrow list is non-empty.
C7_AllStoragesAlone ==
    \A r \in Registrations : \A b \in 1..Len(r.batches.parallel) :
        LET e == Entries(r.batches.parallel[b])
        IN \A x, y \in 1..Len(e) :
              (x # y /\ HoldsAllStorages(BorrowOf(r, e[x]))) => BorrowOf(r, e[y]) = <<>>

\* an AllStorages system was planned between borrowing systems, and one was
\* planned twice in a row
C7_Witness ==
    \E r \in Registrations :
        LET c == r.plan.collected_systems
        IN /\ \E i, j, k \in 1..Len(c) :
                 /\ i < j /\ j < k
                 /\ c[i].borrow # <<>> /\ ~HoldsAllStorages(c[i].borrow)
                 /\ HoldsAllStorages(c[j].borrow)
                 /\ c[k].borrow # <<>> /\ ~HoldsAllStorages(c[k].borrow)
                 /\ r.plan.placed[i] < r.plan.placed[j]
                 /\ r.plan.placed[j] < r.plan.placed[k]

(***************************************************************************)
(* Properties of the registry.                                             *)
(***************************************************************************)
\* the type_ids of the systems of the registered workloads
RegisteredTypeIds ==
    UNION {{plans[l].collected_systems[k].type_id :
                k \in 1..Len(plans[l].collected_systems)} : l \in DOMAIN workloads}

Occurrences(l, type_id) ==
    Cardinality({k \in 1..Len(plans[l].collected_systems) :
                    plans[l].collected_systems[k].type_id = type_id})

\* C8: when every registration so far returned, the pool holds exactly one
\* entry per type_id of the registered systems, and every occurrence of a
\* system refers to the pool index of its type_id.
C8_OnePoolEntryPerSystem ==
    ~panicked =>
        /\ \A i, j \in 1..Len(systems) : i # j => systems[i] # systems[j]
        /\ Range(systems) = RegisteredTypeIds
        /\ DOMAIN lookup_table = RegisteredTypeIds
        /\ \A l \in DOMAIN workloads :
              LET c == plans[l].collected_systems
              IN /\ Len(workloads[l].sequential) = Len(c)
                 /\ \A k \in 1..Len(c) :
                       /\ lookup_table[c[k].type_id] = c[k].index
                       /\ systems[c[k].index + 1] = c[k].type_id
                       /\ workloads[l].sequential[k] = c[k].index

\* a system occurs in two workloads and twice in one of them
C8_Witness ==
    /\ ~panicked
    /\ \E l, m \in DOMAIN workloads : \E type_id \in RegisteredTypeIds :
          /\ l # m
          /\ Occurrences(l, type_id) >= 1
          /\ Occurrences(m, type_id) >= 2

RegistryUnchanged ==
    UNCHANGED <<systems, system_names, system_generators, lookup_table, workloads, default>>

SchedulerBorrowed == run.state = "running" /\ run.source = "world"

\* C9: add_to_world of a builder whose label is registered returns
\* AlreadyExists and changes nothing of the registry.
C9_AlreadyExistsChangesNothing ==
    [][\A slot \in Slots :
          (/\ add_to_world(slot)
           /\ ~SchedulerBorrowed
           /\ builders[slot][1].name \in DOMAIN workloads)
             => (result' = AlreadyExists /\ RegistryUnchanged)]_vars

\* a builder holding work units was rejected with AlreadyExists while the
\* registry held a workload with systems
C9_Witness ==
    /\ result = AlreadyExists
    /\ consumed # None
    /\ consumed[1].work_units # <<>>
    /\ consumed[1].name \in DOMAIN workloads
    /\ systems # <<>>

\* some WorkloadName of the work units, inline workloads included, is not registered
RECURSIVE UnknownReferences(_, _)
UnknownReferences(work_units, registered) ==
    IF work_units = <<>> THEN {}
    ELSE LET unit == Head(work_units)
         IN (CASE unit.kind = "System" -> {}
               [] unit.kind = "WorkloadName" ->
                    IF unit.label \in DOMAIN registered THEN {} ELSE {unit.label}
               [] unit.kind = "Workload" -> UnknownReferences(unit.work_units, registered))
            \cup UnknownReferences(Tail(work_units), registered)

\* C10: add_to_world of a builder with a new label that references, at the
\* top level or inside an inline workload, a label that is not registered
\* returns UnknownWorkload(parent, missing) and leaves the registry
\* unchanged; when every referenced label is registered by then it succeeds.
C10_UnknownWorkloadRejected ==
    [][\A slot \in Slots :
          (/\ add_to_world(slot)
           /\ ~SchedulerBorrowed
           /\ builders[slot][1].name \notin DOMAIN workloads)
             => LET missing == UnknownReferences(builders[slot][1].work_units, workloads)
                IN IF missing # {}
                   THEN /\ \E child \in missing :
                              result' = UnknownWorkload(builders[slot][1].name, child)
                        /\ RegistryUnchanged
                   ELSE result'.kind = "Ok"]_vars

\* C11: default stays the empty label while no workload is registered,
\* becomes the label of the builder whose registration is the first to
\* succeed (an empty builder included), and never changes afterwards,
\* whatever later registrations return.
C11_DefaultIsFirstRegistered ==
    [][IF DOMAIN workloads = {}
       THEN \/ DOMAIN workloads' = {} /\ default' = default /\ default = ""
            \/ /\ DOMAIN workloads' = {default'}
               /\ result'.kind = "Ok"
               /\ consumed'[1].name = default'
       ELSE /\ default' = default
            /\ default \in DOMAIN workloads
            /\ DOMAIN workloads \subseteq DOMAIN workloads']_vars

\* the first registered workload was empty, a second workload with systems
\* was registered after it and a later registration failed
C11_Witness ==
    /\ Cardinality(DOMAIN workloads) = 2
    /\ default \in DOMAIN workloads
    /\ workloads[default] = DefaultBatches
    /\ \E l \in DOMAIN workloads : workloads[l].sequential # <<>>
    /\ result \in {AlreadyExists} \cup {UnknownWorkload(p, c) : p, c \in Labels}

\* the work units without the top-level references to the given labels
RECURSIVE WithoutReferences(_, _)
WithoutReferences(work_units, labels) ==
    IF work_units = <<>> THEN <<>>
    ELSE IF Head(work_units).kind = "WorkloadName" /\ Head(work_units).label \in labels
         THEN WithoutReferences(Tail(work_units), labels)
         ELSE <<Head(work_units)>> \o WithoutReferences(Tail(work_units), labels)

EmptyWorkloads == {l \in DOMAIN workloads : workloads[l] = DefaultBatches}

\* what the registration of the work units leaves under the label and returns
Registered(name, work_units, predicates) ==
    plan_workload([name |-> name, work_units |-> work_units, skip_if |-> predicates],
                  Registry, flatten_work_units(flatten_start(Registry), work_units, workloads))

\* C12: add_to_world of a builder without work units and with a new label
\* stores the empty Batches and returns an empty batch_info; a builder with
\* references to workloads registered empty registers as if those
\* references were not there: they add no system, no batch and no pool entry.
C12_EmptyWorkloadRegisters ==
    [][\A slot \in Slots :
          (/\ add_to_world(slot)
           /\ ~SchedulerBorrowed
           /\ builders[slot][1].name \notin DOMAIN workloads)
             => LET builder == builders[slot][1]
                    stripped == WithoutReferences(builder.work_units, EmptyWorkloads)
                IN /\ builder.work_units = <<>> =>
                        /\ workloads' = workloads @@ (builder.name :> DefaultBatches)
                        /\ result' = Ok([name |-> builder.name, batch_info |-> <<>>])
                        /\ systems' = systems /\ lookup_table' = lookup_table
                   /\ (/\ stripped # builder.work_units
                       /\ UnknownReferences(builder.work_units, workloads) = {})
                        => \E expected \in {Registered(builder.name, stripped, builder.skip_if)} :
                              /\ result' = expected.result
                              /\ workloads' = expected.reg.workloads
                              /\ systems' = expected.reg.systems
                              /\ lookup_table' = expected.reg.lookup_table
                              /\ stripped = <<>> =>
                                    /\ workloads'[builder.name].parallel = <<>>
                                    /\ workloads'[builder.name].sequential = <<>>
                                    /\ result'.info.batch_info = <<>>]_vars

\* a builder holding a system and a reference to a workload registered
\* empty was registered and got the one system
C12_Witness ==
    /\ consumed # None
    /\ result.kind = "Ok"
    /\ consumed[1].name \in DOMAIN workloads
    /\ Len(workloads[consumed[1].name].sequential) = 1
    /\ \E k \in 1..Len(consumed[1].work_units) :
          /\ consumed[1].work_units[k].kind = "WorkloadName"
          /\ consumed[1].work_units[k].label \in EmptyWorkloads

\* C13: a registered workload whose flattened list has one system has one
\* batch, (Some(index), []) when the system borrows AllStorages or holds a
\* non-thread-safe borrow and (None, [index]) otherwise, sequential is
\* [index], and the packing loop run on the one-element list gives the same
\* parallel and sequential.
C13_SingleSystemOneBatch ==
    \A r \in Registrations :
        Len(r.plan.collected_systems) = 1 =>
            LET system == r.plan.collected_systems[1]
                borrow == BorrowOf(r, system.index)
                loop == place_all(EmptyPlan, r.plan.collected_systems)
            IN /\ r.batches.parallel =
                     IF HoldsAllStorages(borrow) \/ HoldsNonThreadSafe(borrow)
                     THEN <<<<Some(system.index), <<>>>>>>
                     ELSE <<<<None, <<system.index>>>>>>
               /\ r.batches.sequential = <<system.index>>
               /\ loop.parallel = r.batches.parallel
               /\ loop.sequential = r.batches.sequential

\* a one-system workload whose system is non-thread-safe without an
\* AllStorages borrow was registered with the system in the main slot
C13_Witness ==
    \E l \in DOMAIN workloads :
        /\ Len(plans[l].collected_systems) = 1
        /\ workloads[l].parallel = <<<<Some(0), <<>>>>>>
        /\ ~HoldsAllStorages(generator(system_generators[1]))
        /\ HoldsNonThreadSafe(generator(system_generators[1]))

\* the positions whose system is listed again right after it
Twins(c) == {i \in 1..Len(c) : i < Len(c) /\ c[i].type_id = c[i + 1].type_id}

\* C14: when the same system is listed twice in a row, sequential has two
\* entries for it and the two occurrences are placed in separate batches.
C14_SameSystemTwiceSeparate ==
    \A r \in Registrations :
        \A i \in Twins(r.plan.collected_systems) :
            /\ r.batches.sequential[i] = r.batches.sequential[i + 1]
            /\ r.plan.placed[i] # r.plan.placed[i + 1]

\* C14 (amended): when the same system is listed twice in a row, sequential
\* has two entries for it; the second occurrence is placed in a later batch
\* than the first when the system conflicts with itself (an Exclusive, an
\* AllStorages or a non-thread-safe borrow) and in the same batch as the
\* first otherwise.
C14_SameSystemTwiceSeparateIfSelfConflict ==
    \A r \in Registrations :
        LET c == r.plan.collected_systems
        IN \A i \in Twins(c) :
              /\ Len(r.batches.sequential) = Len(c)
              /\ r.batches.sequential[i] = c[i].index
              /\ r.batches.sequential[i + 1] = c[i].index
              /\ IF SystemsConflict(c[i].borrow, c[i].borrow)
                 THEN r.plan.placed[i] < r.plan.placed[i + 1]
                 ELSE r.plan.placed[i] = r.plan.placed[i + 1]

\* one workload lists a system of Shared thread-safe borrows twice in a row
\* and has them in one parallel list, after a system with an Exclusive
\* borrow of the same storage
C14_Witness ==
    \E l \in DOMAIN workloads :
        LET c == plans[l].collected_systems
        IN /\ Len(c) = 3
           /\ 2 \in Twins(c)
           /\ c[2].borrow # <<>>
           /\ SystemsConflict(c[1].borrow, c[2].borrow)
           /\ ~SystemsConflict(c[2].borrow, c[2].borrow)
           /\ workloads[l].parallel = <<<<None, <<c[1].index>>>>, <<None, <<c[2].index, c[2].index>>>>>>

\* the type_ids of a flattened list, in order
TypeIds(c) == [k \in 1..Len(c) |-> c[k].type_id]

\* C15: the systems a1 with W(U)+W(V), a2 with R(U)+W(V) and b1 with R(U),
\* appended in that order into one builder and registered in an empty
\* registry, are stored as parallel = [(None,[0,2]),(None,[1])] and
\* sequential = [0,1,2].
C15_AppendExampleAsStated ==
    \A l \in DOMAIN workloads :
        (/\ DOMAIN workloads = {l}
         /\ TypeIds(plans[l].collected_systems) = <<"sys_ww", "sys_rw", "sys_r">>)
            => /\ workloads[l].parallel = <<<<None, <<0, 2>>>>, <<None, <<1>>>>>>
               /\ workloads[l].sequential = <<0, 1, 2>>

\* C15 (amended): the systems a1 with R(U)+W(V), a2 with R(U)+W(V) and b1
\* with R(U), appended in that order into one builder and registered in an
\* empty registry, are stored as parallel = [(None,[0,2]),(None,[1])] and
\* sequential = [0,1,2].
C15_AppendExample ==
    \A l \in DOMAIN workloads :
        (/\ DOMAIN workloads = {l}
         /\ TypeIds(plans[l].collected_systems) = <<"sys_rw", "sys_rw2", "sys_r">>)
            => /\ workloads[l].parallel = <<<<None, <<0, 2>>>>, <<None, <<1>>>>>>
               /\ workloads[l].sequential = <<0, 1, 2>>
               /\ systems = <<"sys_rw", "sys_rw2", "sys_r">>

\* the three systems were appended into builder A and registered first
C15_Witness ==
    /\ DOMAIN workloads = {"A"}
    /\ TypeIds(plans["A"].collected_systems) = <<"sys_rw", "sys_rw2", "sys_r">>
    /\ workloads["A"].parallel = <<<<None, <<0, 2>>>>, <<None, <<1>>>>>>
    /\ builders[2] # None
    /\ builders[2][1].work_units = <<>>

\* the builder that with_system called once per work unit makes of a builder
RECURSIVE OneByOne(_, _)
OneByOne(builder, work_units) ==
    IF work_units = <<>> THEN builder
    ELSE OneByOne([builder EXCEPT !.work_units = Append(@, Head(work_units))],
                  Tail(work_units))

\* C19: a.append(b) leaves in a its old work units followed by b's old work
\* units in their order, and no work unit in b; both labels and both lists
\* of skip predicates stay as they were; a is then the builder that adding
\* b's work units to it one by one gives, so it plans like that builder.
C19_AppendMovesWorkUnits ==
    [][(/\ builders' # builders
        /\ \A s \in Slots : builders[s] # None /\ builders'[s] # None)
          => \E slot, other \in Slots :
                LET a == builders[slot][1]
                    b == builders[other][1]
                IN /\ slot # other
                   /\ builders'[slot][1].work_units = a.work_units \o b.work_units
                   /\ builders'[other][1].work_units = <<>>
                   /\ builders'[slot][1].name = a.name
                   /\ builders'[other][1].name = b.name
                   /\ builders'[slot][1].skip_if = a.skip_if
                   /\ builders'[other][1].skip_if = b.skip_if
                   /\ builders'[slot][1] = OneByOne(a, b.work_units)
                   /\ UNCHANGED <<registry_vars, scheduled, result>>]_vars

\* builder A holds more work units than it was filled with, in an order
\* that only A's followed by B's gives, and B is left with its skip
\* predicate alone
C19_Witness ==
    /\ builders[1] # None
    /\ builders[2] # None
    /\ Len(builders[1][1].work_units) = 2 * MaxAppend
    /\ TypeIds([k \in 1..2 |-> [type_id |-> builders[1][1].work_units[k].system_type_id]])
          = <<"sys_ww", "sys_rw">>
    /\ builders[1][1].work_units[2 * MaxAppend].system_type_id = "sys_r"
    /\ builders[1][1].skip_if = <<>>
    /\ builders[2][1].work_units = <<>>
    /\ builders[2][1].skip_if = <<"keep">>

\* the positions before j whose system conflicts with the one of position j
EarlierConflicting(c, j) ==
    {i \in 1..(j - 1) : SystemsConflict(c[i].borrow, c[j].borrow)}

\* the largest member of a non-empty set of numbers
Max(S) == CHOOSE x \in S : \A y \in S : y <= x

\* C16: the batch index of every position of the flattened list is 0 when no
\* earlier position conflicts with it and otherwise 1 plus the largest batch
\* index of an earlier conflicting position; in particular an Exclusive
\* borrow of a component storage and one of the unique storage of the same
\* type do not keep two systems apart.
C16_EarliestBatch ==
    \A r \in Registrations :
        LET c == r.plan.collected_systems
            placed == r.plan.placed
        IN \A j \in 1..Len(c) :
              /\ placed[j] =
                    IF EarlierConflicting(c, j) = {} THEN 0
                    ELSE 1 + Max({placed[i] : i \in EarlierConflicting(c, j)})
              /\ \A i \in 1..(j - 1) :
                    (c[i].borrow = <<ViewMut("Usize")>> /\ c[j].borrow = <<UniqueViewMut("Usize")>>)
                       => i \notin EarlierConflicting(c, j)

\* the third system, which borrows the unique storage, moved up past the
\* batch of the second into the batch of the first, which borrows the
\* component storage of the same type
C16_Witness ==
    \E r \in Registrations :
        LET c == r.plan.collected_systems
        IN /\ Len(c) = 3
           /\ c[1].borrow = <<ViewMut("Usize")>>
           /\ c[3].borrow = <<UniqueViewMut("Usize")>>
           /\ r.plan.placed = <<0, 1, 0>>
           /\ r.batches.parallel[1] = <<None, <<c[1].index, c[3].index>>>>

\* the positions before j placed in the batch of position i or in a later one
FromBatchOf(r, i, j) == {k \in 1..(j - 1) : r.plan.placed[k] >= r.plan.placed[i]}

\* C17: a thread-safe system without an AllStorages borrow, listed after a
\* non-thread-safe system that holds the main slot of a batch, and in
\* conflict with no earlier system of that batch or of a later batch, is
\* placed in the parallel list of that batch or of an earlier one: the
\* occupied main slot does not push it to a later batch.
C17_ThreadSafeJoinsPinnedBatch ==
    \A r \in Registrations :
        LET c == r.plan.collected_systems
            placed == r.plan.placed
        IN \A i, j \in 1..Len(c) :
              (/\ i < j
               /\ HoldsNonThreadSafe(c[i].borrow)
               /\ r.batches.parallel[placed[i] + 1][1] = Some(c[i].index)
               /\ ~HoldsNonThreadSafe(c[j].borrow)
               /\ ~HoldsAllStorages(c[j].borrow)
               /\ \A k \in FromBatchOf(r, i, j) : ~SystemsConflict(c[k].borrow, c[j].borrow))
                  => /\ placed[j] <= placed[i]
                     /\ c[j].index \in Range(r.batches.parallel[placed[j] + 1][2])

\* the second batch has a non-thread-safe system in its main slot and, in
\* its parallel list, the thread-safe borrowing system listed after it,
\* which a conflict with the first batch kept from moving further up
C17_Witness ==
    \E r \in Registrations :
        LET c == r.plan.collected_systems
        IN /\ Len(c) = 3
           /\ r.plan.placed = <<0, 1, 1>>
           /\ HoldsNonThreadSafe(c[2].borrow)
           /\ ~HoldsNonThreadSafe(c[3].borrow)
           /\ c[3].borrow # <<>>
           /\ SystemsConflict(c[1].borrow, c[3].borrow)
           /\ r.batches.parallel[2] = <<Some(c[2].index), <<c[3].index>>>>

\* the type_ids a list of systems and of references to registered workloads
\* stands for: a system for itself, a reference for the systems of the
\* pool indices of the referenced workload's sequential
RECURSIVE ExpandTypeIds(_)
ExpandTypeIds(work_units) ==
    IF work_units = <<>> THEN <<>>
    ELSE LET unit == Head(work_units)
         IN (IF unit.kind = "System" THEN <<unit.system_type_id>>
             ELSE [k \in 1..Len(workloads[unit.label].sequential) |->
                      systems[workloads[unit.label].sequential[k] + 1]])
            \o ExpandTypeIds(Tail(work_units))

\* the type_ids of the systems a builder holds directly
DirectTypeIds(work_units) ==
    {work_units[k].system_type_id : k \in {u \in 1..Len(work_units) : work_units[u].kind = "System"}}

\* C18: a workload registered with references to registered workloads gets,
\* at the position of each reference, the systems of the referenced
\* workload's sequential in order, each with the borrow list its generator
\* gives; every reference adds its own copy; the pool grows by the systems
\* the builder holds directly and that were not in it, never by a referenced
\* system; the flat list is packed by the planner (the workload [r, w, r]
\* referenced twice around one r gives 5 batches and 2 pool entries).
C18_ReferenceIsFlattened ==
    [][\A slot \in Slots :
          (/\ add_to_world(slot)
           /\ builders[slot][1].name \notin DOMAIN workloads
           /\ builders[slot][1].work_units # <<>>
           /\ UnknownReferences(builders[slot][1].work_units, workloads) = {})
             => LET builder == builders[slot][1]
                    name == builder.name
                    expected == ExpandTypeIds(builder.work_units)
                IN /\ result'.kind = "Ok"
                   /\ name \in DOMAIN workloads'
                   /\ TypeIds(plans'[name].collected_systems) = expected
                   /\ \A k \in 1..Len(expected) :
                         LET entry == plans'[name].collected_systems[k]
                         IN /\ entry.index = lookup_table'[entry.type_id]
                            /\ systems'[entry.index + 1] = entry.type_id
                            /\ entry.borrow = generator(system_generators'[entry.index + 1])
                            /\ workloads'[name].sequential[k] = entry.index
                   /\ Len(workloads'[name].sequential) = Len(expected)
                   /\ SubSeq(systems', 1, Len(systems)) = systems
                   /\ Range(systems') = Range(systems) \cup DirectTypeIds(builder.work_units)
                   /\ Len(systems') = Cardinality(Range(systems'))
                   /\ workloads'[name].parallel =
                         plan_batches(plans'[name].collected_systems).parallel
                   /\ (/\ builder.work_units = <<WorkloadNameUnit("A"), SystemUnit("sys_r"),
                                                 WorkloadNameUnit("A")>>
                       /\ ExpandTypeIds(<<WorkloadNameUnit("A")>>) = <<"sys_r", "sys_w", "sys_r">>)
                         => /\ Len(workloads'[name].parallel) = 5
                            /\ Len(result'.info.batch_info) = 5
                            /\ Len(systems') = 2]_vars

\* workload A = [r, w, r] was registered, then B = [A, r, A]: B has seven
\* systems in five batches and the pool has two entries
C18_Witness ==
    /\ DOMAIN workloads = {"A", "B"}
    /\ TypeIds(plans["A"].collected_systems) = <<"sys_r", "sys_w", "sys_r">>
    /\ consumed = Some([new_builder("B") EXCEPT
                           !.work_units = <<WorkloadNameUnit("A"), SystemUnit("sys_r"),
                                            WorkloadNameUnit("A")>>])
    /\ TypeIds(plans["B"].collected_systems)
          = <<"sys_r", "sys_w", "sys_r", "sys_r", "sys_r", "sys_w", "sys_r">>
    /\ Len(workloads["B"].parallel) = 5
    /\ Len(systems) = 2

\* C20: no step changes the Batches of a registered label or removes the
\* label, and no step removes or moves a pool entry: systems, system_names
\* and system_generators only grow at their end and the lookup_table keeps
\* the index of every type_id it holds.
C20_RegisteredNeverChanges ==
    [][/\ \A l \in DOMAIN workloads :
             l \in DOMAIN workloads' /\ workloads'[l] = workloads[l]
       /\ Len(systems') >= Len(systems)
       /\ SubSeq(systems', 1, Len(systems)) = systems
       /\ SubSeq(system_names', 1, Len(system_names)) = system_names
       /\ SubSeq(system_generators', 1, Len(system_generators)) = system_generators
       /\ \A t \in DOMAIN lookup_table :
             t \in DOMAIN lookup_table' /\ lookup_table'[t] = lookup_table[t]
       /\ \A t \in DOMAIN lookup_table' : systems'[lookup_table'[t] + 1] = t]_vars

\* workload A was registered and run to its end, and the registration of B
\* made during the run failed
C20_Witness ==
    /\ DOMAIN workloads = {"A"}
    /\ Len(workloads["A"].parallel) >= 2
    /\ Len(systems) >= 2
    /\ consumed # None
    /\ consumed[1].name = "B"
    /\ result = [kind |-> "Err", error |-> "Borrow"]
    /\ run.state = "done"
    /\ run.source = "world"

\* what add_to_world of the builder stores and returns on a world whose
\* registry is empty: every add_to_world step made on an empty registry is
\* compared with it, and so is every build step
OnEmptyWorld(builder) == create_workload(builder, EmptyRegistry)

\* C21: build of a builder without workload references gives the parallel
\* and sequential (and skip_if) and the WorkloadInfo that add_to_world of the
\* same builder gives on a world whose registry is empty, whatever the
\* registry of the world holds when build is called.
C21_BuildAsOnEmptyWorld ==
    [][/\ (/\ add_to_world(1)
           /\ ~SchedulerBorrowed
           /\ Registry = EmptyRegistry)
          => \E expected \in {OnEmptyWorld(builders[1][1])} :
                /\ result' = expected.result
                /\ workloads' = expected.reg.workloads
                /\ systems' = expected.reg.systems
       /\ (build(1) /\ scheduled' # scheduled)
          => \E expected \in {OnEmptyWorld(builders[1][1])} :
                /\ UnknownReferences(builders[1][1].work_units, EmptyFcn) = {}
                /\ result' = expected.result
                /\ scheduled'[1].workloads = expected.reg.workloads
                /\ scheduled'[1].systems = expected.reg.systems
                /\ scheduled'[1].system_generators = expected.reg.system_generators
                /\ scheduled'[1].lookup_table = expected.reg.lookup_table]_vars

\* a workload of two batches was built while the pool of the world held a
\* system the built workload has at another index
C21_Witness ==
    /\ scheduled # None
    /\ Len(scheduled[1].workloads[scheduled[1].name].parallel) >= 2
    /\ "sys_w" \in DOMAIN lookup_table
    /\ "sys_w" \in DOMAIN scheduled[1].lookup_table
    /\ scheduled[1].lookup_table["sys_w"] # lookup_table["sys_w"]

\* a step that starts a run
RunStarts == run'.count = run.count + 1

\* C22: the skip predicates of a builder with work units are the skip_if of
\* the Batches it is registered or built as; a run of a workload with at
\* least one system, one of whose skip predicates returns true, ends at once
\* without error, and after it no system of the workload is started or
\* writes; this holds for a run of a registered workload and for
\* run_with_world of a built one.
C22_SkippedRunsNothing ==
    [][/\ \A slot \in Slots :
             (/\ add_to_world(slot)
              /\ ~SchedulerBorrowed
              /\ builders[slot][1].name \notin DOMAIN workloads
              /\ builders[slot][1].work_units # <<>>)
                => workloads'[builders[slot][1].name].skip_if = builders[slot][1].skip_if
       /\ (build(1) /\ builders[1][1].work_units # <<>>)
             => scheduled'[1].workloads[builders[1][1].name].skip_if = builders[1][1].skip_if
       /\ RunStarts
             => /\ run'.source = "world" => \E l \in DOMAIN workloads : run'.batches = workloads[l]
                /\ run'.source = "scheduled"
                      => run'.batches = scheduled[1].workloads[scheduled[1].name]
                /\ (run'.batches.sequential # <<>> /\ "skip" \in Range(run'.batches.skip_if))
                      => /\ run'.skipped
                         /\ run'.state = "done"
                         /\ run'.pending = {} /\ run'.active = {}
                         /\ ~run'.failed
                         /\ storages' = storages
       /\ (run.skipped /\ ~RunStarts)
             => /\ run'.active = {} /\ run'.pending = {}
                /\ run'.state = "done" /\ ~run'.failed
                /\ storages' = storages]_vars

\* the registered workload A, of three systems and with a skip predicate
\* that returns true, was run: the run is over and nothing was written
C22_Witness ==
    /\ run.source = "world"
    /\ run.skipped
    /\ run.state = "done"
    /\ run.batches.skip_if = <<"skip">>
    /\ Len(run.batches.sequential) = 3
    /\ "A" \in DOMAIN workloads
    /\ run.batches = workloads["A"]
    /\ \A st \in DOMAIN storages : storages[st] = <<>>

\* C23: a predicate installed by skip_if_storage_empty_by_id, when it is
\* called, returns a Boolean: TRUE when the storage is not in the world, the
\* storage's is_empty() when the storage can be borrowed, FALSE when it is
\* there but cannot be borrowed; skip_if_storage_empty and
\* skip_if_missing_unique install this predicate for the component storage
\* and for the unique storage of the type.
C23_StorageEmptyPredicate ==
    [][/\ \A k \in 1..MaxSkip :
             evaluate(1, k)
                => LET storage_id == builders[1][1].skip_if[k].storage_id
                   IN /\ result' \in {Some(TRUE), Some(FALSE)}
                      /\ result'[1] =
                            IF storage_id \notin DOMAIN storages THEN TRUE
                            ELSE IF storages[storage_id].borrow = "exclusive" THEN FALSE
                            ELSE storages[storage_id].len = 0
       /\ \A t \in SkipTypes :
             /\ skip_if_storage_empty(1, t)
                   => builders'[1][1].skip_if =
                         Append(builders[1][1].skip_if,
                                StorageEmpty(StorageId_of("SparseSet<" \o t \o ">")))
             /\ skip_if_missing_unique(1, t)
                   => builders'[1][1].skip_if =
                         Append(builders[1][1].skip_if,
                                StorageEmpty(StorageId_of("UniqueStorage<" \o t \o ">")))]_vars

\* the predicate was called while its storage was in the world, empty and
\* borrowed exclusively, and returned FALSE
C23_Witness ==
    /\ result = Some(FALSE)
    /\ builders[1] # None
    /\ builders[1][1].skip_if # <<>>
    /\ builders[1][1].skip_if[1].storage_id \in DOMAIN storages
    /\ storages[builders[1][1].skip_if[1].storage_id].borrow = "exclusive"
    /\ storages[builders[1][1].skip_if[1].storage_id].len = 0

\* the entries of the batch being run that wait to start or are running
InBatch(r) ==
    /\ r.pending \subseteq batch_slots(r.batches.parallel[r.batch + 1])
    /\ \A a \in r.active :
          /\ a.slot \in batch_slots(r.batches.parallel[r.batch + 1])
          /\ a.slot \notin r.pending
          /\ a.type_id = r.generators[slot_index(r.batches.parallel[r.batch + 1], a.slot) + 1]

\* C24: during a run only entries of the batch being run wait or run; the
\* run goes from batch b to batch b+1, or ends, only when every entry of
\* batch b (main slot and parallel list) has started and has finished, and
\* then all entries of batch b+1 wait to start.
C24_BatchesInOrder ==
    [][/\ run.state = "running" => InBatch(run)
       /\ (run.state = "running" /\ ~RunStarts)
             => /\ run'.batch \in {run.batch, run.batch + 1}
                /\ (run'.batch = run.batch + 1 \/ run'.state = "done")
                      => /\ run.pending = {}
                         /\ run.active = {}
                         /\ run'.completed = run.batch + 1
                /\ run'.batch = run.batch + 1
                      => /\ run'.state = "running"
                         /\ run'.active = {}
                         /\ run'.pending = batch_slots(run.batches.parallel[run.batch + 2])
                /\ run'.batch = run.batch
                      => /\ run'.pending \subseteq run.pending
                         /\ run'.completed = run.batch \/ run'.state = "done"
       /\ RunStarts => run'.batch = 0 /\ run'.completed = 0 /\ run'.active = {}]_vars

\* a system of the second batch is running after the two systems of the
\* first batch have both written
C24_Witness ==
    /\ run.state = "running"
    /\ run.batch = 1
    /\ run.completed = 1
    /\ run.active # {}
    /\ Cardinality(batch_slots(run.batches.parallel[1])) = 2
    /\ \A x \in batch_slots(run.batches.parallel[1]) :
          LET type_id == run.generators[slot_index(run.batches.parallel[1], x) + 1]
          IN \E st \in written(generator(type_id)) :
                \E k \in 1..Len(storages[st]) : storages[st][k].by = type_id

\* two borrow lists hold conflicting borrows of a storage: an Exclusive
\* borrow of a storage and any borrow of the same storage, or an AllStorages
\* borrow and any borrow
BorrowsConflict(s, t) ==
    \E i \in 1..Len(s), j \in 1..Len(t) :
        \/ s[i].storage_id = AllStoragesId
        \/ t[j].storage_id = AllStoragesId
        \/ /\ s[i].storage_id = t[j].storage_id
           /\ (s[i].mutability = Exclusive \/ t[j].mutability = Exclusive)

\* C25: at no moment of a run do two running systems hold conflicting
\* borrows, whatever the order in which the systems of a batch start and
\* finish.
C25_NoConflictingBorrowsRunning ==
    \A a, b \in run.active :
        a # b => ~BorrowsConflict(generator(a.type_id), generator(b.type_id))

\* two systems of a registered workload run at the same time, both with a
\* borrow of the same storage, while a third system was kept for a later
\* batch
C25_Witness ==
    /\ run.state = "running"
    /\ run.source = "world"
    /\ Len(run.batches.parallel) >= 2
    /\ \E a, b \in run.active :
          /\ a # b
          /\ accessed(generator(a.type_id)) \cap accessed(generator(b.type_id)) # {}

\* the running systems that return in this step
Returning == run.active \ run'.active

\* C26: the error of a run is the one of the first system that returned an
\* error; once a system has returned an error, the entries of its batch
\* that were dispatched still start and are waited for, the run does not go
\* to a later batch, and it ends with that error when the batch is over.
C26_FirstErrorStopsRun ==
    [][(run.state = "running" /\ ~RunStarts)
          => /\ (run.error = None /\ run'.error # None)
                   => /\ \E system \in Returning : run'.error = Some(system.type_id)
                      /\ run'.failed
             /\ run.failed <=> run.error # None
             /\ run.failed
                   => /\ run'.error = run.error
                      /\ run'.failed
                      /\ run'.batch = run.batch
                      /\ run'.state = "done" => run.pending = {} /\ run.active = {}
                      /\ (run.pending = {} /\ run.active = {} /\ run' # run)
                            => /\ run'.state = "done"
                               /\ run'.completed = run.batch + 1]_vars

\* a run of two batches ended after its first batch, in which two systems
\* ran: the error of the run is the one of the system that returned it, the
\* other system of the batch wrote, and the second batch was not run
C26_Witness ==
    /\ run.state = "done"
    /\ run.failed
    /\ run.completed = 1
    /\ Len(run.batches.parallel) = 2
    /\ run.error = Some("sys_try_r")
    /\ \E st \in DOMAIN storages :
          /\ Len(storages[st]) = 1
          /\ storages[st][1].by = "sys_try_w"

\* the running systems that hold a non-thread-safe borrow
RunningNonThreadSafe == {a \in run.active : HoldsNonThreadSafe(generator(a.type_id))}

\* C27: during a run a system that holds a non-thread-safe borrow runs in
\* the main slot of its batch, that is on the main worker, and at most one
\* such system is running at any moment.
C27_NonThreadSafeOnMainWorker ==
    /\ \A a \in RunningNonThreadSafe :
          /\ a.slot = 0
          /\ run.batches.parallel[run.batch + 1][1] # None
          /\ run.generators[run.batches.parallel[run.batch + 1][1][1] + 1] = a.type_id
    /\ Cardinality(RunningNonThreadSafe) <= 1

\* a non-thread-safe system runs on the main worker while a thread-safe
\* system with a borrow runs beside it
C27_Witness ==
    /\ run.state = "running"
    /\ \E a, b \in run.active :
          /\ a \in RunningNonThreadSafe
          /\ a.slot = 0
          /\ b.slot # 0
          /\ generator(b.type_id) # <<>>
          /\ ~HoldsNonThreadSafe(generator(b.type_id))

\* the descriptors of a borrow list whose storage is a local one
LocalBorrows(borrow) == {k \in 1..Len(borrow) : borrow[k].storage_id.kind = "Local"}

\* C28: a descriptor of a local storage is Exclusive and non-thread-safe and
\* its storage id names the system that declares it; two positions of the
\* flattened list whose systems declare a local storage, the same system or
\* two systems over the same component type, are placed in different
\* batches in declared order, each in the main slot.
C28_LocalSystemsSerialised ==
    \A r \in Registrations :
        LET c == r.plan.collected_systems
            placed == r.plan.placed
        IN /\ \A j \in 1..Len(c) : \A k \in LocalBorrows(c[j].borrow) :
                 /\ c[j].borrow[k].mutability = Exclusive
                 /\ ~c[j].borrow[k].thread_safe
                 /\ c[j].borrow[k].storage_id.system = c[j].type_id
                 /\ r.batches.parallel[placed[j] + 1][1] = Some(c[j].index)
           /\ \A i, j \in 1..Len(c) :
                 (i < j /\ LocalBorrows(c[i].borrow) # {} /\ LocalBorrows(c[j].borrow) # {})
                    => placed[i] < placed[j]

\* a system with a local storage, another system with the local storage of
\* the same component type, and the first system again, are in three
\* batches in this order
C28_Witness ==
    \E r \in Registrations :
        LET c == r.plan.collected_systems
        IN /\ Len(c) = 3
           /\ c[1].type_id = c[3].type_id
           /\ c[1].type_id # c[2].type_id
           /\ \A j \in 1..3 : LocalBorrows(c[j].borrow) # {}
           /\ c[1].borrow[1].storage_id.ty = c[2].borrow[1].storage_id.ty
           /\ c[1].borrow[1].storage_id # c[2].borrow[1].storage_id
           /\ r.plan.placed = <<0, 1, 2>>

\* the local storages of the world
LocalStorages == {s \in DOMAIN storages : s.kind = "Local"}

RECURSIVE FlatEvents(_)
FlatEvents(work_units) ==
    IF work_units = <<>> THEN <<>>
    ELSE LET unit == Head(work_units)
         IN (CASE unit.kind = "System" ->
                    [k \in 1..Len(unit.borrow_constraints) |->
                        [kind |-> "borrow", type_info |-> unit.borrow_constraints[k]]]
               [] unit.kind = "Workload" -> FlatEvents(unit.work_units)
               [] unit.kind = "WorkloadName" ->
                    IF unit.label \notin DOMAIN workloads
                    THEN <<[kind |-> "unknown", label |-> unit.label]>>
                    ELSE Concat([k \in 1..Len(workloads[unit.label].sequential) |->
                            [d \in 1..Len(BorrowOf([generators |-> system_generators],
                                                   workloads[unit.label].sequential[k])) |->
                                [kind |-> "borrow",
                                 type_info |-> BorrowOf([generators |-> system_generators],
                                                        workloads[unit.label].sequential[k])[d]]]]))
            \o FlatEvents(Tail(work_units))

\* the events that make the check fail
Failing(events) ==
    {k \in 1..Len(events) :
        \/ events[k].kind = "unknown"
        \/ /\ events[k].kind = "borrow"
           /\ starts_with_unique_name(events[k].type_info.name)
           /\ events[k].type_info.storage_id \notin DOMAIN storages}

\* C30: are_all_uniques_present_in_world returns Ok when the world holds
\* every unique storage the builder borrows and every label it references is
\* registered; otherwise it returns the error of the first failing item in
\* the flattened declared order of the work units: Unique(t) for a borrow t
\* of an absent unique storage (of a system, of an inline workload or of a
\* referenced workload alike), Workload(label) for an unregistered label.
C30_FirstMissingUnique ==
    [][are_all_uniques_present_in_world(2)
          => LET events == FlatEvents(builders[2][1].work_units)
                 first == CHOOSE k \in Failing(events) : \A j \in Failing(events) : k <= j
             IN result' =
                   IF Failing(events) = {} THEN UniquePresenceOk
                   ELSE IF events[first].kind = "unknown"
                        THEN UniquePresenceWorkload(events[first].label)
                        ELSE UniquePresenceUnique(events[first].type_info)]_vars

\* the WorkloadInfo the last registration returned
ReturnedInfo == IF result # None /\ result.kind = "Ok" THEN {result.info} ELSE {}

\* the system a Conflict names
ConflictingSystem(conflict) ==
    IF conflict.kind = "OtherNotSendSync" THEN conflict.system ELSE conflict.other_system

\* C31: in the WorkloadInfo a registration returns, the conflict of a system
\* is None if and only if the system is in the first batch, and when it is
\* Some the system it names is in the batch right before the system's batch.
C31_ConflictNamesPreviousBatch ==
    \A info \in ReturnedInfo :
       \A b \in 1..Len(info.batch_info) :
          \A system_info \in Range(chain(info.batch_info[b])) :
             /\ (system_info.conflict = None) <=> (b = 1)
             /\ b > 1 =>
                   \E other \in Range(chain(info.batch_info[b - 1])) :
                      SystemId(other) = ConflictingSystem(system_info.conflict[1])

\* a WorkloadInfo of three batches is returned: the system of the third
\* batch names a different system, which is in the second batch
C31_Witness ==
    \E info \in ReturnedInfo :
       /\ Len(info.batch_info) = 3
       /\ \E system_info \in Range(chain(info.batch_info[3])) :
             /\ system_info.conflict # None
             /\ ConflictingSystem(system_info.conflict[1]).type_id # system_info.type_id
             /\ \E other \in Range(chain(info.batch_info[2])) :
                   SystemId(other) = ConflictingSystem(system_info.conflict[1])

\* C32: a system whose first special borrow is non-thread-safe and that is
\* placed behind a batch whose main slot holds a system with a
\* non-thread-safe borrow records the conflict OtherNotSendSync, naming that
\* main-slot system and a non-thread-safe borrow of it.
C32_OtherNotSendSyncRecorded ==
    \A info \in ReturnedInfo :
       \A b \in 2..Len(info.batch_info) :
          \A system_info \in Range(info.batch_info[b][1]) :
             \A main \in Range(info.batch_info[b - 1][1]) :
                (non_send_sync_of(system_info.borrow) # None /\ HoldsNonThreadSafe(main.borrow))
                   => /\ system_info.conflict # None
                      /\ system_info.conflict[1].kind = "OtherNotSendSync"
                      /\ system_info.conflict[1].system = SystemId(main)
                      /\ system_info.conflict[1].type_info \in Range(main.borrow)
                      /\ ~system_info.conflict[1].type_info.thread_safe

\* C33: whenever a SystemInfo of a returned WorkloadInfo records
\* Conflict::Borrow, type_info is one of the borrows of the system,
\* other_type_info is one of the borrows of other_system, which is in the
\* batch before, and the two descriptors conflict under the conflict rule
\* between descriptors.
C33_BorrowConflictIsAConflict ==
    \A info \in ReturnedInfo :
       \A b \in 2..Len(info.batch_info) :
          \A system_info \in Range(chain(info.batch_info[b])) :
             (system_info.conflict # None /\ system_info.conflict[1].kind = "Borrow")
                => LET conflict == system_info.conflict[1]
                   IN /\ conflict.type_info # None
                      /\ conflict.type_info[1] \in Range(system_info.borrow)
                      /\ \E other \in Range(chain(info.batch_info[b - 1])) :
                            /\ SystemId(other) = conflict.other_system
                            /\ conflict.other_type_info \in Range(other.borrow)
                      /\ DescriptorsConflict(conflict.type_info[1], conflict.other_type_info)

\* C34: add_to_world called while the Scheduler is borrowed, shared by a run
\* of a workload of the world or exclusively by another add_to_world,
\* returns Borrow in that step and changes nothing of the registry; every
\* step that changes the registry is taken by the one add_to_world that
\* holds the exclusive borrow, with no run reading the registry, and at no
\* time do two add_to_world hold the borrow or one hold it during such a run.
C34_RegistryWrittenUnderExclusiveBorrow ==
    [][/\ \A slot \in Slots :
             (borrow_mut(slot) /\ (SchedulerBorrowed \/ writers # {}))
                => /\ result' = [kind |-> "Err", error |-> "Borrow"]
                   /\ builders'[slot] = None
                   /\ RegistryUnchanged
                   /\ writers' = writers
       /\ ~RegistryUnchanged
             => /\ ~SchedulerBorrowed
                /\ \E slot \in Slots : writers = {slot} /\ create_workload_in_world(slot)
       /\ Cardinality(writers') <= 1
       /\ writers' # {} => ~SchedulerBorrowed']_vars

\* an add_to_world returned Borrow while the other add_to_world held the
\* Scheduler exclusively, and nothing was registered yet
C34_Witness ==
    /\ result = [kind |-> "Err", error |-> "Borrow"]
    /\ writers # {}
    /\ consumed # None
    /\ workloads = EmptyFcn

\* the type_ids of the systems of a registered workload, in declared order
Declared(label) ==
    [k \in 1..Len(workloads[label].sequential) |->
        system_generators[workloads[label].sequential[k] + 1]]

\* C35: when two workloads of two systems are registered, one declaring
\* (s1, s2) and the other (s2, s1), the two systems share a batch in the one
\* if and only if they share a batch in the other.
C35_SameBatchInBothOrders ==
    \A a, b \in DOMAIN workloads :
       (/\ Len(Declared(a)) = 2
        /\ Declared(b) = <<Declared(a)[2], Declared(a)[1]>>)
          => /\ (Len(workloads[a].parallel) = 1) <=> (Len(workloads[b].parallel) = 1)
             /\ (plans[a].placed[1] = plans[a].placed[2])
                   <=> (plans[b].placed[1] = plans[b].placed[2])

\* both orders of a non-thread-safe system and a thread-safe borrowing system
\* are registered and give one batch, the former in the main slot, the
\* latter in the parallel list
C35_Witness ==
    /\ DOMAIN workloads = {"A", "B"}
    /\ Declared("A")[1] # Declared("A")[2]
    /\ Declared("B") = <<Declared("A")[2], Declared("A")[1]>>
    /\ HoldsNonThreadSafe(generator(Declared("A")[1]))
    /\ ~HoldsNonThreadSafe(generator(Declared("A")[2]))
    /\ generator(Declared("A")[2]) # <<>>
    /\ \A l \in {"A", "B"} :
          /\ Len(workloads[l].parallel) = 1
          /\ workloads[l].parallel[1][1] # None
          /\ workloads[l].parallel[1][2] # <<>>

\* the Batches stored for the WorkloadInfo the last registration returned,
\* with the pool its indices point into
StoredFor(info) ==
    IF info.name \in DOMAIN workloads
    THEN [parallel |-> workloads[info.name].parallel, generators |-> system_generators]
    ELSE [parallel |-> scheduled[1].workloads[info.name].parallel,
          generators |-> scheduled[1].system_generators]

\* C36: the WorkloadInfo a successful registration returns has the shape of
\* the stored Batches.parallel: as many batches, a main entry in batch_info[b]
\* exactly when parallel[b] has a main index, naming the system of that
\* index, and parallel entries naming the systems of the parallel list of
\* parallel[b] in the same order.
C36_InfoHasShapeOfBatches ==
    \A info \in ReturnedInfo :
       LET stored == StoredFor(info)
       IN /\ Len(info.batch_info) = Len(stored.parallel)
          /\ \A b \in 1..Len(info.batch_info) :
                /\ (info.batch_info[b][1] = None) <=> (stored.parallel[b][1] = None)
                /\ info.batch_info[b][1] # None =>
                      info.batch_info[b][1][1].type_id
                         = stored.generators[stored.parallel[b][1][1] + 1]
                /\ [k \in 1..Len(info.batch_info[b][2]) |-> info.batch_info[b][2][k].type_id]
                      = [k \in 1..Len(stored.parallel[b][2]) |->
                            stored.generators[stored.parallel[b][2][k] + 1]]

\* the pool indices a Batches holds, in sequential and in parallel
IndicesOf(batches) ==
    Range(batches.sequential)
       \cup UNION {Range(Entries(batches.parallel[b])) : b \in 1..Len(batches.parallel)}

\* the pool of a Scheduler is consistent and its workloads point into it
WellFormed(reg) ==
    /\ Len(reg.system_names) = Len(reg.systems)
    /\ Len(reg.system_generators) = Len(reg.systems)
    /\ DOMAIN reg.lookup_table = Range(reg.system_generators)
    /\ {reg.lookup_table[t] : t \in DOMAIN reg.lookup_table} = 0..(Len(reg.systems) - 1)
    /\ \A t, u \in DOMAIN reg.lookup_table :
          reg.lookup_table[t] = reg.lookup_table[u] => t = u
    /\ \A t \in DOMAIN reg.lookup_table : reg.system_generators[reg.lookup_table[t] + 1] = t
    /\ \A l \in DOMAIN reg.workloads :
          /\ \A index \in IndicesOf(reg.workloads[l]) : index < Len(reg.systems)
          /\ \A b \in 1..Len(reg.workloads[l].parallel) :
                Entries(reg.workloads[l].parallel[b]) # <<>>

\* C37: in every reachable state of the Scheduler of the world, and of every
\* ScheduledWorkload, systems, system_names and system_generators have one
\* length, lookup_table maps the registered type_ids one-to-one onto the
\* indices below that length, every index of sequential and parallel of
\* every workload is below that length, and no batch is empty.
C37_RegistryWellFormed ==
    /\ WellFormed(Registry)
    /\ \A k \in DOMAIN scheduled : WellFormed(scheduled[k])

\* a registration has unwound with a panic after it pushed a system into the
\* pool, which no workload uses
C37_Witness ==
    /\ panicked
    /\ Len(systems) = 1
    /\ DOMAIN lookup_table = {system_generators[1]}
    /\ \A l \in DOMAIN workloads : IndicesOf(workloads[l]) = {}

\* the run that starts in this step is the run of the registered workload B
RunsB ==
    /\ RunStarts
    /\ "B" \in DOMAIN workloads
    /\ run'.batches = workloads["B"]

\* C38: the skip_if stored for a workload is the skip_if of its own builder
\* when the builder has work units, references included, and is empty when
\* it has none; the predicates of a referenced workload are not inherited: a
\* run of the parent B, whose own predicates return false, is not skipped
\* even when the predicate of the referenced A returns true, it runs every
\* batch, and when it ends the systems B took from A have written.
C38_SkipIfIsTheBuildersOwn ==
    [][/\ \A slot \in Slots :
             (add_to_world(slot) /\ result'.kind = "Ok")
                => workloads'[builders[slot][1].name].skip_if =
                      IF builders[slot][1].work_units = <<>> THEN <<>>
                      ELSE builders[slot][1].skip_if
       /\ RunsB
             => /\ ~run'.skipped
                /\ run'.batches.parallel # <<>> =>
                      (run'.state = "running" /\ run'.pending # {})
       /\ (/\ run.state = "running" /\ run'.state = "done"
           /\ "B" \in DOMAIN workloads
           /\ run.batches = workloads["B"])
             => /\ run'.completed = Len(run.batches.parallel)
                /\ \A k \in 1..Len(run.batches.sequential) :
                      run.generators[run.batches.sequential[k] + 1] = "sys_w"
                         => storages'[StorageId_of("SparseSet<Usize>")] # <<>>]_vars

\* A is registered with a predicate that returns true, B references A and
\* has a predicate that returns false; B was run to its end and the system
\* it took from A has written
C38_Witness ==
    /\ DOMAIN workloads = {"A", "B"}
    /\ workloads["A"].skip_if = <<"skip">>
    /\ workloads["B"].skip_if = <<"keep">>
    /\ workloads["B"].sequential = workloads["A"].sequential
    /\ run.state = "done"
    /\ run.batches = workloads["B"]
    /\ ~run.skipped
    /\ storages[StorageId_of("SparseSet<Usize>")] # <<>>

\* how many times every system is listed in the sequential of the run
Listed ==
    [type_id \in {run.generators[run.batches.sequential[k] + 1] :
                     k \in 1..Len(run.batches.sequential)} |->
        Cardinality({k \in 1..Len(run.batches.sequential) :
                        run.generators[run.batches.sequential[k] + 1] = type_id})]

\* C39: a run of a workload that no skip predicate skipped, whose systems
\* all return, eventually ends; if no system returned an error it ends
\* without error and every system has been called as many times as
\* `sequential` lists it.
C39_RunEndsHavingRunSequential ==
    (run.state = "running")
       ~> (/\ run.state = "done"
           /\ ~run.failed => (run.error = None /\ run.executed = Listed))

\* the run of a workload that lists one system twice, in two batches, and
\* another system once has ended without error: the former was called twice
C39_Witness ==
    /\ run.state = "done"
    /\ ~run.failed
    /\ ~run.skipped
    /\ Len(run.batches.sequential) = 3
    /\ Len(run.batches.parallel) = 2
    /\ \E type_id \in DOMAIN run.executed : run.executed[type_id] = 2

====
